---- MODULE Spec2Model ----
(***************************************************************************)
(* Model of the APort request-mediation layer:                             *)
(*   middleware/fastapi/.../middleware.py  (the four mediation entry       *)
(*     points and their helpers)                                           *)
(*   sdk/python/.../client.py              (APortClient: remote calls,     *)
(*     HTTP session, keyset cache)                                         *)
(*   sdk/python/.../decision_types.py      (PolicyVerificationResponse)    *)
(*                                                                         *)
(* Python values are represented by strings and fixed-shape records:       *)
(*   None      the Python None                                             *)
(*   ""        the empty string (falsy)                                    *)
(*   Absent    a key that a mapping does not have                          *)
(* A dict that the code only inspects through .get("agent_id") / .get("id")*)
(* and truthiness is a record [kind, agent_id|id, extra], where extra says *)
(* whether the dict has further keys.                                      *)
(*                                                                         *)
(* Specifications:                                                         *)
(*   Spec        one mediation component and the requests it mediates      *)
(*   LiveSpec    Spec with every pending remote call eventually answered   *)
(*   ClientSpec  the client objects of a process: sessions, keyset cache   *)
(*   ConcurrentSpec  two requests in flight on one AgentPassportMiddleware *)
(***************************************************************************)
EXTENDS Integers, Sequences, FiniteSets, TLC

None == "None"
Absent == "absent"

\* Python truthiness of an optional string.
Truthy(s) == s # None /\ s # "" /\ s # Absent

\* Python `a or b` on optional strings.
Or(a, b) == IF Truthy(a) THEN a ELSE b

(***************************************************************************)
(* Request bodies.                                                         *)
(***************************************************************************)

\* The "passport" field of a body: missing, not a dict, or a dict.
NoPassportField == [kind |-> "absent", agent_id |-> None, extra |-> FALSE]
PassportFields ==
    { NoPassportField,
      [kind |-> "nondict", agent_id |-> None, extra |-> FALSE],
      [kind |-> "dict", agent_id |-> None, extra |-> FALSE],
      [kind |-> "dict", agent_id |-> None, extra |-> TRUE],
      [kind |-> "dict", agent_id |-> "a2", extra |-> TRUE] }

\* The "policy" field of a body: missing, not a dict, or a dict (a pack).
NoPolicyField == [kind |-> "absent", id |-> None, extra |-> FALSE]
PolicyFields ==
    { NoPolicyField,
      [kind |-> "nondict", id |-> None, extra |-> FALSE],
      [kind |-> "dict", id |-> None, extra |-> FALSE],
      [kind |-> "dict", id |-> None, extra |-> TRUE],
      [kind |-> "dict", id |-> "custom", extra |-> TRUE] }

\* Python truthiness of a dict-or-None value: a non-empty dict.
DictTruthy(d, key) == d.kind = "dict" /\ (d[key] # None \/ d.extra)

\* The remaining top-level fields of a body are the verification context.  Of
\* these the model tracks the two keys the client also writes: agent_id and
\* policy_id.
NoCtx == [agent_id |-> Absent, policy_id |-> Absent]
BodyCtxs == { NoCtx, [agent_id |-> "evil", policy_id |-> "bp"] }

\* The dict-or-missing fields, without the non-dict values.
DictPassports == { p \in PassportFields : p.kind # "nondict" }
DictPolicies == { q \in PolicyFields : q.kind # "nondict" }
NonEmptyPassports == { p \in DictPassports : p.kind = "absent" \/ p.extra }
NonEmptyPolicies == { q \in DictPolicies : q.kind = "absent" \/ q.extra }

\* Raw request bodies: no bytes, bytes that are not JSON, JSON that is not an
\* object, and JSON objects.
Bodies ==
    { [kind |-> k, passport |-> NoPassportField, policy |-> NoPolicyField,
       ctx |-> NoCtx] : k \in {"empty", "malformed", "nonmapping"} }
    \cup
    { [kind |-> "mapping", passport |-> p, policy |-> q, ctx |-> NoCtx] :
          p \in DictPassports, q \in DictPolicies }
    \cup
    { [kind |-> "mapping", passport |-> p, policy |-> q, ctx |-> c] :
          p \in NonEmptyPassports, q \in NonEmptyPolicies, c \in BodyCtxs }
    \cup
    { [kind |-> "mapping", passport |-> p, policy |-> q, ctx |-> NoCtx] :
          p \in PassportFields \ DictPassports,
          q \in {x \in NonEmptyPolicies : x.id # None \/ x.kind = "absent"} }
    \cup
    { [kind |-> "mapping", passport |-> p, policy |-> q, ctx |-> NoCtx] :
          p \in {x \in NonEmptyPassports : x.agent_id # None \/ x.kind = "absent"},
          q \in PolicyFields \ DictPolicies }

FullBody == [kind |-> "mapping",
             passport |-> [kind |-> "dict", agent_id |-> "a2", extra |-> TRUE],
             policy |-> [kind |-> "dict", id |-> "custom", extra |-> TRUE],
             ctx |-> NoCtx]
EmptyBody == [kind |-> "empty", passport |-> NoPassportField, policy |-> NoPolicyField,
              ctx |-> NoCtx]

\* Paths are sequences of characters; "h" stands for "/health" and so on.
DefaultSkipPaths == << <<"h">>, <<"m">>, <<"s">> >>
Paths == { <<"h", "z">>, <<"a", "p">> }

\* The values of the x-agent-passport-id and x-agent-id headers.
HeaderPairs == { <<None, None>>, <<"a3", None>>, <<None, "a4">>, <<"a3", "a4">>,
                 <<"", "a4">> }

Requests ==
    { [method |-> m, path |-> p, x_agent_passport_id |-> h[1], x_agent_id |-> h[2],
       body |-> b] :
        m \in {"GET", "POST", "PUT"}, p \in Paths, h \in HeaderPairs, b \in Bodies }

InputRequests ==
    { r \in Requests :
        /\ r.method = "GET" => r.body = EmptyBody
        /\ r.method = "PUT" => r.body \in {EmptyBody, FullBody} }

(***************************************************************************)
(* middleware.py helpers                                                   *)
(***************************************************************************)

IsPrefix(p, s) == Len(p) <= Len(s) /\ SubSeq(s, 1, Len(p)) = p

\* AgentPassportMiddlewareOptions.__init__: skip_paths or [defaults].
\* The argument is [isNone, paths].
OptionsSkipPaths(arg) ==
    IF arg.isNone \/ arg.paths = << >> THEN DefaultSkipPaths ELSE arg.paths

\* A variant that compares the whole path instead of its prefix.
skip_on_equal_path(request, skip_paths) ==
    \E i \in 1..Len(skip_paths) : skip_paths[i] = request.path

should_skip_request(request, skip_paths) ==
    \E i \in 1..Len(skip_paths) : IsPrefix(skip_paths[i], request.path)

\* json.loads(body) if body else {}; JSONDecodeError -> {}.
\* The result is [isMapping, passport, policy, ctx].
_read_and_replay_body(request) ==
    CASE request.body.kind \in {"empty", "malformed"} ->
            [isMapping |-> TRUE, passport |-> NoPassportField,
             policy |-> NoPolicyField, ctx |-> NoCtx]
      [] request.body.kind = "nonmapping" ->
            [isMapping |-> FALSE, passport |-> NoPassportField,
             policy |-> NoPolicyField, ctx |-> NoCtx]
      [] OTHER ->
            [isMapping |-> TRUE, passport |-> request.body.passport,
             policy |-> request.body.policy, ctx |-> request.body.ctx]

\* body_json = {}
EmptyBodyJson == [isMapping |-> TRUE, passport |-> NoPassportField,
                  policy |-> NoPolicyField, ctx |-> NoCtx]

\* body_json.get(k) if flag and isinstance(body_json.get(k), dict) else None
BodyDict(flag, field, none) == IF flag /\ field.kind = "dict" THEN field ELSE none

extract_agent_id(request, provided_agent_id, body_json, passport_from_body) ==
    IF Truthy(provided_agent_id) THEN provided_agent_id
    ELSE IF /\ passport_from_body
            /\ body_json.passport.kind = "dict"
            /\ Truthy(body_json.passport.agent_id)
         THEN body_json.passport.agent_id
         ELSE Or(request.x_agent_passport_id, Or(request.x_agent_id, None))

(***************************************************************************)
(* client.py: request construction                                         *)
(***************************************************************************)

\* APortClient._build_policy_request_body: ctx = dict(context); agent_id and
\* policy_id overwrite the context's keys when they are not None; passport
\* and policy are added when they are not None (NoPassportField /
\* NoPolicyField stand for None here).
_build_policy_request_body(agent_id, policy_id, context, passport, policy) ==
    [context |-> [agent_id |-> IF agent_id # None THEN agent_id ELSE context.agent_id,
                  policy_id |-> IF policy_id # None THEN policy_id ELSE context.policy_id],
     passport |-> passport,
     policy |-> policy]

\* A remote call: the client operation, the HTTP method, the endpoint (route
\* and its path parameter) and the JSON body.
NoBody == [context |-> NoCtx, passport |-> NoPassportField, policy |-> NoPolicyField]

verify_policy(agent_id, policy_id, context) ==
    [op |-> "verify_policy", method |-> "POST",
     route |-> "/api/verify/policy", param |-> policy_id,
     body |-> _build_policy_request_body(agent_id, policy_id, context,
                                         NoPassportField, NoPolicyField)]

verify_policy_with_passport(passport, policy_id, context) ==
    [op |-> "verify_policy_with_passport", method |-> "POST",
     route |-> "/api/verify/policy", param |-> policy_id,
     body |-> _build_policy_request_body(passport.agent_id, policy_id, context,
                                         passport, NoPolicyField)]

\* A variant that puts the pack's id in the path instead of IN_BODY.
in_body_with_pack_id_in_path(agent_id_or_passport, policy, context) ==
    LET passport == IF agent_id_or_passport.isDict
                    THEN agent_id_or_passport.passport ELSE NoPassportField
        agent_id == IF agent_id_or_passport.isDict
                    THEN agent_id_or_passport.passport.agent_id
                    ELSE agent_id_or_passport.agent_id
    IN [op |-> "verify_policy_with_policy_in_body", method |-> "POST",
        route |-> "/api/verify/policy", param |-> policy.id,
        body |-> _build_policy_request_body(agent_id, policy.id, context,
                                            passport, policy)]

\* agent_id_or_passport is [isDict, passport, agent_id].
verify_policy_with_policy_in_body(agent_id_or_passport, policy, context) ==
    LET passport == IF agent_id_or_passport.isDict
                    THEN agent_id_or_passport.passport ELSE NoPassportField
        agent_id == IF agent_id_or_passport.isDict
                    THEN agent_id_or_passport.passport.agent_id
                    ELSE agent_id_or_passport.agent_id
    IN [op |-> "verify_policy_with_policy_in_body", method |-> "POST",
        route |-> "/api/verify/policy", param |-> "IN_BODY",
        body |-> _build_policy_request_body(agent_id, policy.id, context,
                                            passport, policy)]

get_passport_view(agent_id) ==
    [op |-> "get_passport_view", method |-> "GET",
     route |-> "/api/passports/verify_view", param |-> agent_id,
     body |-> NoBody]

\* body_passport if body_passport else effective_agent_id
PassportOrAgentId(body_passport, effective_agent_id) ==
    IF DictTruthy(body_passport, "agent_id")
    THEN [isDict |-> TRUE, passport |-> body_passport, agent_id |-> None]
    ELSE [isDict |-> FALSE, passport |-> NoPassportField, agent_id |-> effective_agent_id]

(***************************************************************************)
(* Remote responses and client.py / decision_types.py: normalisation       *)
(***************************************************************************)

\* The decision fields of a JSON object; Absent marks a missing key.
NoFields == [decision_id |-> Absent, allow |-> Absent, reasons |-> Absent,
             assurance_level |-> Absent]

CompleteDecisions ==
    { [decision_id |-> "d1", allow |-> a, reasons |-> rs, assurance_level |-> Absent] :
        a \in {"true", "false"}, rs \in {"empty", "one"} }
    \cup
    { [decision_id |-> "d1", allow |-> a, reasons |-> Absent, assurance_level |-> "L2"] :
        a \in {"true", "false"} }

IncompleteDecisions ==
    { [decision_id |-> Absent, allow |-> "true", reasons |-> "empty",
       assurance_level |-> Absent],
      [decision_id |-> "d1", allow |-> Absent, reasons |-> "empty",
       assurance_level |-> Absent],
      [decision_id |-> "d1", allow |-> None, reasons |-> "empty",
       assurance_level |-> Absent] }

\* The decisions the service also sends inside a "decision" envelope.
EnvelopedDecisions ==
    { d \in CompleteDecisions \cup IncompleteDecisions :
        d.reasons = "empty" /\ d.allow # None }

\* A response of the remote service to a verify call.  kind is "ok" (2xx),
\* "http_error" (any other status), "network_error" (aiohttp.ClientError) or
\* "timeout" (asyncio.TimeoutError).  The JSON payload has top-level decision
\* fields (top) and, when has_decision, a "decision" envelope.
OkResponses ==
    { [kind |-> "ok", status |-> 200, has_decision |-> TRUE, decision |-> d,
       top |-> NoFields, server_timing |-> FALSE, view_agent_id |-> Absent] :
        d \in EnvelopedDecisions }
    \cup
    { [kind |-> "ok", status |-> 200, has_decision |-> FALSE, decision |-> NoFields,
       top |-> d, server_timing |-> FALSE, view_agent_id |-> Absent] :
        d \in CompleteDecisions \cup IncompleteDecisions }

FailedResponses ==
    { [kind |-> "http_error", status |-> 403, has_decision |-> FALSE,
       decision |-> NoFields,
       top |-> [decision_id |-> "d9", allow |-> "true", reasons |-> "one",
                assurance_level |-> Absent],
       server_timing |-> FALSE, view_agent_id |-> Absent],
      [kind |-> "http_error", status |-> 500, has_decision |-> FALSE,
       decision |-> NoFields, top |-> NoFields, server_timing |-> FALSE,
       view_agent_id |-> Absent] }
    \cup
    { [kind |-> k, status |-> 0, has_decision |-> FALSE, decision |-> NoFields,
       top |-> NoFields, server_timing |-> FALSE, view_agent_id |-> Absent] :
        k \in {"network_error", "timeout"} }

VerifyResponses == OkResponses \cup FailedResponses

\* Responses to GET /api/passports/{id}/verify_view: the view is a mapping
\* that may have an agent_id key of its own.
ViewResponses ==
    { [kind |-> "ok", status |-> 200, has_decision |-> FALSE, decision |-> NoFields,
       top |-> NoFields, server_timing |-> FALSE, view_agent_id |-> v] :
        v \in {Absent, "v7"} }
    \cup
    { [kind |-> "http_error", status |-> st, has_decision |-> FALSE,
       decision |-> NoFields, top |-> NoFields, server_timing |-> FALSE,
       view_agent_id |-> Absent] : st \in {404, 500} }
    \cup
    { [kind |-> k, status |-> 0, has_decision |-> FALSE, decision |-> NoFields,
       top |-> NoFields, server_timing |-> FALSE, view_agent_id |-> Absent] :
        k \in {"network_error", "timeout"} }

\* dict.get(key): None when the key is missing.
Get(v) == IF v = Absent THEN None ELSE v

\* errors.AportError(status, reasons, decision_id): the failure carrier.
AportError(status, reasons, decision_id) ==
    [status |-> status, reasons |-> reasons, decision_id |-> decision_id]

NoError == AportError(0, None, None)

\* APortClient._make_request, from the response on: [raised, error, json].
\* raised is "none" or "AportError"; json is the parsed payload
\* [has_decision, decision, top, view_agent_id].
NoJson == [has_decision |-> FALSE, decision |-> NoFields, top |-> NoFields,
           view_agent_id |-> Absent]

\* A variant whose ClientError clause also takes the timeout.
make_request_timeout_as_network(response) ==
    CASE response.kind = "ok" ->
            [raised |-> "none", error |-> NoError,
             json |-> [has_decision |-> response.has_decision,
                       decision |-> response.decision, top |-> response.top,
                       view_agent_id |-> response.view_agent_id]]
      [] response.kind = "http_error" ->
            [raised |-> "AportError",
             error |-> AportError(response.status, Get(response.top.reasons),
                                  Get(response.top.decision_id)),
             json |-> NoJson]
      [] OTHER ->
            [raised |-> "AportError",
             error |-> AportError(0, "NETWORK_ERROR", None),
             json |-> NoJson]

\* A variant that returns the payload whatever the status is.
make_request_ignores_status(response) ==
    CASE response.kind \in {"ok", "http_error"} ->
            [raised |-> "none", error |-> NoError,
             json |-> [has_decision |-> response.has_decision,
                       decision |-> response.decision, top |-> response.top,
                       view_agent_id |-> response.view_agent_id]]
      [] response.kind = "network_error" ->
            [raised |-> "AportError",
             error |-> AportError(0, "NETWORK_ERROR", None),
             json |-> NoJson]
      [] OTHER ->
            [raised |-> "AportError",
             error |-> AportError(408, "TIMEOUT", None),
             json |-> NoJson]

_make_request(response) ==
    CASE response.kind = "ok" ->
            [raised |-> "none", error |-> NoError,
             json |-> [has_decision |-> response.has_decision,
                       decision |-> response.decision, top |-> response.top,
                       view_agent_id |-> response.view_agent_id]]
      [] response.kind = "http_error" ->
            [raised |-> "AportError",
             error |-> AportError(response.status, Get(response.top.reasons),
                                  Get(response.top.decision_id)),
             json |-> NoJson]
      [] response.kind = "network_error" ->
            [raised |-> "AportError",
             error |-> AportError(0, "NETWORK_ERROR", None),
             json |-> NoJson]
      [] OTHER ->
            [raised |-> "AportError",
             error |-> AportError(408, "TIMEOUT", None),
             json |-> NoJson]

\* A variant that reads the top-level payload whether or not there is an
\* envelope.
from_api_response_top_level_only(data) ==
    IF data.top.decision_id = Absent \/ data.top.allow = Absent
    THEN [raised |-> TRUE, decision_id |-> None, allow |-> None,
          reasons |-> None, assurance_level |-> None]
    ELSE [raised |-> FALSE, decision_id |-> data.top.decision_id,
          allow |-> data.top.allow, reasons |-> Get(data.top.reasons),
          assurance_level |-> Get(data.top.assurance_level)]

\* PolicyVerificationResponse.from_api_response: the envelope's content when
\* data has a "decision", else the top-level payload; cls(**kwargs) raises
\* TypeError when decision_id or allow is missing; optional fields default
\* to None.
from_api_response(data) ==
    LET payload == IF data.has_decision THEN data.decision ELSE data.top
    IN IF payload.decision_id = Absent \/ payload.allow = Absent
       THEN [raised |-> TRUE, decision_id |-> None, allow |-> None,
             reasons |-> None, assurance_level |-> None]
       ELSE [raised |-> FALSE, decision_id |-> payload.decision_id,
             allow |-> payload.allow, reasons |-> Get(payload.reasons),
             assurance_level |-> Get(payload.assurance_level)]

\* A variant that reads every allow other than false as permission.
decision_allow_unless_false(decision) == decision.allow # "false"

\* bool(decision.allow)
_decision_allow(decision) == decision.allow = "true"

\* reasons or []
ReasonsOrEmpty(reasons) == IF reasons = None \/ reasons = "empty" THEN "empty" ELSE reasons

\* A variant that drops the decision id.
decision_meta_without_id(decision) ==
    [decision_id |-> None, reasons |-> ReasonsOrEmpty(decision.reasons)]

\* _decision_meta: {"decision_id": ..., "reasons": ... or []}
_decision_meta(decision) ==
    [decision_id |-> decision.decision_id, reasons |-> ReasonsOrEmpty(decision.reasons)]

(***************************************************************************)
(* Outcomes                                                                *)
(***************************************************************************)

NoAdditional == [agent_id |-> Absent, policy_id |-> Absent, decision_id |-> Absent,
                 reasons |-> Absent]

\* No response produced yet.
NoResult == [kind |-> "none", via |-> "none", status |-> 0, error |-> None,
             message |-> None, agent_id |-> Absent, policy_id |-> Absent,
             decision_id |-> Absent, reasons |-> Absent]

\* create_error_response: {"error": error, "message": message, **additional}
\* with the given HTTP status.
create_error_response(status_code, error, message, additional) ==
    [kind |-> "rejection", via |-> "JSONResponse", status |-> status_code,
     error |-> error, message |-> message, agent_id |-> additional.agent_id,
     policy_id |-> additional.policy_id, decision_id |-> additional.decision_id,
     reasons |-> additional.reasons]

\* raise HTTPException(status_code=..., detail={...})
HTTPException(status_code, error, message, additional) ==
    [create_error_response(status_code, error, message, additional)
        EXCEPT !.via = "HTTPException"]

\* request.state: agent and policy_result.  agent.rest names the mapping
\* that was spread into the agent dict after the agent_id key.
NoAgent == [set |-> FALSE, agent_id |-> None, rest |-> "none"]
NoPolicyResult == [set |-> FALSE, decision_id |-> None, allow |-> None,
                   reasons |-> None, assurance_level |-> Absent]
NoState == [agent |-> NoAgent, policy_result |-> NoPolicyResult]

\* The locals of one mediation.
Frame0 == [body_reads |-> 0, body_passport |-> NoPassportField,
           body_policy |-> NoPolicyField, agent_id |-> None,
           effective_agent_id |-> None, context |-> NoCtx, call_site |-> "none"]

MISSING_MSG == "Agent ID is required"
INTERNAL_MSG == "Internal server error"
VIOLATION_MSG == "Policy violation"
ERROR_MSG == "error.message"

\* What a mediation has done when it next awaits or returns.
Returned(f, res) == [pc |-> "done", frame |-> f, call |-> << >>, state |-> NoState,
                     result |-> res]
CallNext(f, site, st) == [pc |-> "call_next", frame |-> [f EXCEPT !.call_site = site],
                          call |-> << >>, state |-> st, result |-> NoResult]
Await(f, where, call) == [pc |-> where, frame |-> f, call |-> <<call>>,
                          state |-> NoState, result |-> NoResult]

\* A variant that answers with the text of the exception.
internal_error_with_detail ==
    create_error_response(500, "internal_error", "str(error)", NoAdditional)

\* except Exception: 500 internal_error
internal_error == create_error_response(500, "internal_error", INTERNAL_MSG, NoAdditional)

\* A variant that tests the passport before the body policy.
select_passport_first(o, body_passport, body_policy, effective_agent_id, context) ==
    IF DictTruthy(body_passport, "agent_id")
    THEN verify_policy_with_passport(body_passport, o.policy_id, context)
    ELSE IF DictTruthy(body_policy, "id")
         THEN verify_policy_with_policy_in_body(
                  PassportOrAgentId(body_passport, effective_agent_id), body_policy,
                  context)
         ELSE verify_policy(effective_agent_id, o.policy_id, context)

\* the policy-path selection of the Decision Client operation
\* (dispatch lines 252-270)
dispatch_select(o, body_passport, body_policy, effective_agent_id, context) ==
    IF DictTruthy(body_policy, "id")
    THEN verify_policy_with_policy_in_body(
             PassportOrAgentId(body_passport, effective_agent_id), body_policy, context)
    ELSE IF DictTruthy(body_passport, "agent_id")
         THEN verify_policy_with_passport(body_passport, o.policy_id, context)
         ELSE verify_policy(effective_agent_id, o.policy_id, context)

\* A variant that rejects whatever fail_closed is.
missing_identity_always_rejected(o, f) ==
    Returned(f, create_error_response(401, "missing_agent_id", MISSING_MSG, NoAdditional))

\* if self.options.fail_closed: 401 missing_agent_id; else call_next
dispatch_missing_identity(o, f) ==
    IF o.fail_closed
    THEN Returned(f, create_error_response(401, "missing_agent_id", MISSING_MSG,
                                           NoAdditional))
    ELSE CallNext(f, "fail_open", NoState)

\* AgentPassportMiddleware.dispatch from its start to its first remote call
\* or its return.
dispatch_begin(o, r) ==
    IF should_skip_request(r, o.skip_paths)
    THEN CallNext(Frame0, "skip", NoState)
    ELSE
    LET reads == r.method = "POST" /\ (Truthy(o.policy_id) \/ o.passport_from_body
                                          \/ o.policy_from_body)
        body_json == IF reads THEN _read_and_replay_body(r) ELSE EmptyBodyJson
        f0 == [Frame0 EXCEPT !.body_reads = IF reads THEN 1 ELSE 0]
    IN
    IF ~body_json.isMapping /\ (o.passport_from_body \/ o.policy_from_body)
    THEN Returned(f0, internal_error)            \* body_json.get raises
    ELSE
    LET body_passport == BodyDict(o.passport_from_body, body_json.passport, NoPassportField)
        body_policy == BodyDict(o.policy_from_body, body_json.policy, NoPolicyField)
        agent_id == extract_agent_id(r, None, body_json, o.passport_from_body)
        f1 == [f0 EXCEPT !.body_passport = body_passport, !.body_policy = body_policy,
                         !.agent_id = agent_id]
    IN
    IF ~Truthy(agent_id) /\ ~DictTruthy(body_passport, "agent_id")
    THEN dispatch_missing_identity(o, f1)
    ELSE
    LET effective_agent_id ==
            Or(agent_id, IF DictTruthy(body_passport, "agent_id")
                         THEN body_passport.agent_id ELSE None)
        f2 == [f1 EXCEPT !.effective_agent_id = effective_agent_id]
    IN
    IF ~Truthy(o.policy_id) /\ ~DictTruthy(body_policy, "id")
    THEN IF DictTruthy(body_passport, "agent_id")
         THEN CallNext(f2, "passport",
                       [NoState EXCEPT !.agent = [set |-> TRUE,
                                                  agent_id |-> body_passport.agent_id,
                                                  rest |-> "passport"]])
         ELSE Await(f2, "await_view", get_passport_view(effective_agent_id))
    ELSE
    IF ~body_json.isMapping
    THEN Returned(f2, internal_error)            \* body_json.items raises
    ELSE
    LET context == body_json.ctx
        f3 == [f2 EXCEPT !.context = context]
    IN Await(f3, "await_verify",
             dispatch_select(o, body_passport, body_policy, effective_agent_id, context))

\* A variant that answers every failure with status 500.
api_error_always_500(error) ==
    create_error_response(500, "api_error", ERROR_MSG,
                          [NoAdditional EXCEPT !.reasons = error.reasons])

\* except AportError on the policy path: the failure's status and reasons
api_error(error) ==
    create_error_response(error.status, "api_error", ERROR_MSG,
                          [NoAdditional EXCEPT !.reasons = error.reasons])

\* request.state.agent = {"agent_id": effective_agent_id};
\* request.state.policy_result = {decision_id, allow, reasons or []}
AllowedState(effective_agent_id, decision) ==
    [agent |-> [set |-> TRUE, agent_id |-> effective_agent_id, rest |-> "none"],
     policy_result |-> [set |-> TRUE, decision_id |-> decision.decision_id,
                        allow |-> decision.allow,
                        reasons |-> ReasonsOrEmpty(decision.reasons),
                        assurance_level |-> Absent]]

\* the policy_id reported by a policy_violation of dispatch:
\* self.options.policy_id or (body_policy.get("id") if body_policy else None)
dispatch_violation_policy_id(o, body_policy) ==
    Or(o.policy_id, IF DictTruthy(body_policy, "id") THEN body_policy.id ELSE None)

\* A variant that issues the verify call again when the client fails.
after_verify_retry_on_failure(o, f, response) ==
    LET made == _make_request(response)
        decision == from_api_response(made.json)
    IN
    IF made.raised = "AportError"
    THEN Await(f, "await_verify",
               dispatch_select(o, f.body_passport, f.body_policy,
                               f.effective_agent_id, f.context))
    ELSE IF decision.raised THEN Returned(f, internal_error)
    ELSE IF ~_decision_allow(decision)
    THEN Returned(f, create_error_response(403, "policy_violation", VIOLATION_MSG,
                     [agent_id |-> f.effective_agent_id,
                      policy_id |-> dispatch_violation_policy_id(o, f.body_policy),
                      decision_id |-> _decision_meta(decision).decision_id,
                      reasons |-> _decision_meta(decision).reasons]))
    ELSE CallNext(f, "policy", AllowedState(f.effective_agent_id, decision))

\* A variant that keeps waiting when the call times out.
after_verify_timeout_pending(o, f, response) ==
    LET made == _make_request(response)
        decision == from_api_response(made.json)
    IN
    IF response.kind = "timeout"
    THEN [pc |-> "pending", frame |-> f, call |-> << >>, state |-> NoState,
          result |-> NoResult]
    ELSE IF made.raised = "AportError" THEN Returned(f, api_error(made.error))
    ELSE IF decision.raised THEN Returned(f, internal_error)
    ELSE IF ~_decision_allow(decision)
    THEN Returned(f, create_error_response(403, "policy_violation", VIOLATION_MSG,
                     [agent_id |-> f.effective_agent_id,
                      policy_id |-> dispatch_violation_policy_id(o, f.body_policy),
                      decision_id |-> _decision_meta(decision).decision_id,
                      reasons |-> _decision_meta(decision).reasons]))
    ELSE CallNext(f, "policy", AllowedState(f.effective_agent_id, decision))

\* A variant that lets the request through on a client failure when the
\* component is configured fail-open.
after_verify_fail_open(o, f, response) ==
    LET made == _make_request(response)
        decision == from_api_response(made.json)
    IN
    IF made.raised = "AportError"
    THEN IF o.fail_closed THEN Returned(f, api_error(made.error))
         ELSE CallNext(f, "fail_open", NoState)
    ELSE IF decision.raised THEN Returned(f, internal_error)
    ELSE IF ~_decision_allow(decision)
    THEN Returned(f, create_error_response(403, "policy_violation", VIOLATION_MSG,
                     [agent_id |-> f.effective_agent_id,
                      policy_id |-> dispatch_violation_policy_id(o, f.body_policy),
                      decision_id |-> _decision_meta(decision).decision_id,
                      reasons |-> _decision_meta(decision).reasons]))
    ELSE CallNext(f, "policy", AllowedState(f.effective_agent_id, decision))

\* AgentPassportMiddleware.dispatch from the reply to its verify call on.
dispatch_after_verify(o, f, response) ==
    LET made == _make_request(response)
        decision == from_api_response(made.json)
    IN
    IF made.raised = "AportError" THEN Returned(f, api_error(made.error))
    ELSE IF decision.raised THEN Returned(f, internal_error)
    ELSE IF ~_decision_allow(decision)
    THEN Returned(f, create_error_response(403, "policy_violation", VIOLATION_MSG,
                     [agent_id |-> f.effective_agent_id,
                      policy_id |-> dispatch_violation_policy_id(o, f.body_policy),
                      decision_id |-> _decision_meta(decision).decision_id,
                      reasons |-> _decision_meta(decision).reasons]))
    ELSE CallNext(f, "policy", AllowedState(f.effective_agent_id, decision))

\* A variant that continues without the view when the fetch fails.
after_view_fail_open(o, f, response) ==
    LET made == _make_request(response)
    IN CallNext(f, "view",
                [NoState EXCEPT !.agent =
                    [set |-> made.raised = "none",
                     agent_id |-> IF made.json.view_agent_id # Absent
                                  THEN made.json.view_agent_id
                                  ELSE f.effective_agent_id,
                     rest |-> "view"]])

\* AgentPassportMiddleware.dispatch from the reply to get_passport_view on:
\* request.state.agent = {"agent_id": effective_agent_id, **passport_view}
dispatch_after_view(o, f, response) ==
    LET made == _make_request(response)
    IN
    IF made.raised = "AportError"
    THEN Returned(f, create_error_response(made.error.status,
                     "agent_verification_failed", ERROR_MSG,
                     [NoAdditional EXCEPT !.agent_id = f.effective_agent_id]))
    ELSE CallNext(f, "view",
                  [NoState EXCEPT !.agent =
                      [set |-> TRUE,
                       agent_id |-> IF made.json.view_agent_id # Absent
                                    THEN made.json.view_agent_id
                                    ELSE f.effective_agent_id,
                       rest |-> "view"]])

\* What the downstream handler does once invoked.
HandlerOutcomes == {"returns", "raises Exception", "raises AportError"}

\* An AportError raised by the downstream handler.
HandlerAportError == AportError(502, None, None)

HandlerResponse == [NoResult EXCEPT !.kind = "response", !.via = "handler",
                                    !.status = 200]
HandlerException == [NoResult EXCEPT !.kind = "exception", !.via = "handler"]

\* AgentPassportMiddleware.dispatch from `await call_next(request)` on: every
\* call_next is inside the outer try; the one after get_passport_view is
\* also inside the inner try.
dispatch_after_call_next(f, outcome) ==
    CASE outcome = "returns" -> HandlerResponse
      [] outcome = "raises Exception" -> internal_error
      [] OTHER ->
            IF f.call_site = "view"
            THEN create_error_response(HandlerAportError.status,
                     "agent_verification_failed", ERROR_MSG,
                     [NoAdditional EXCEPT !.agent_id = f.effective_agent_id])
            ELSE api_error(HandlerAportError)

(***************************************************************************)
(* require_policy(policy_id, agent_id).policy_dependency                   *)
(***************************************************************************)

internal_error_exception == HTTPException(500, "internal_error", INTERNAL_MSG, NoAdditional)

\* policy_dependency from its start to its remote call or its raise.  The
\* closure's agent_id is not passed to extract_agent_id.
policy_dependency_begin(o, r) ==
    LET reads == r.method = "POST"
        body_json == IF reads THEN _read_and_replay_body(r) ELSE EmptyBodyJson
        f0 == [Frame0 EXCEPT !.body_reads = IF reads THEN 1 ELSE 0]
    IN
    IF ~body_json.isMapping
    THEN Returned(f0, internal_error_exception)  \* body_json.get raises
    ELSE
    LET body_passport == BodyDict(TRUE, body_json.passport, NoPassportField)
        body_policy == BodyDict(TRUE, body_json.policy, NoPolicyField)
        extracted_agent_id == extract_agent_id(r, None, body_json, TRUE)
        f1 == [f0 EXCEPT !.body_passport = body_passport, !.body_policy = body_policy,
                         !.agent_id = extracted_agent_id]
    IN
    IF ~Truthy(extracted_agent_id) /\ ~DictTruthy(body_passport, "agent_id")
    THEN Returned(f1, HTTPException(401, "missing_agent_id", MISSING_MSG, NoAdditional))
    ELSE
    LET effective_agent_id ==
            Or(extracted_agent_id, IF DictTruthy(body_passport, "agent_id")
                                   THEN body_passport.agent_id ELSE None)
        context == body_json.ctx
        f2 == [f1 EXCEPT !.effective_agent_id = effective_agent_id,
                         !.context = context]
    IN Await(f2, "await_verify",
             dispatch_select(o, body_passport, body_policy, effective_agent_id, context))

\* policy_dependency from the reply to its verify call on.
policy_dependency_after_verify(o, f, response) ==
    LET made == _make_request(response)
        decision == from_api_response(made.json)
    IN
    IF made.raised = "AportError"
    THEN Returned(f, HTTPException(made.error.status, "api_error", ERROR_MSG,
                                   [NoAdditional EXCEPT !.reasons = made.error.reasons]))
    ELSE IF decision.raised THEN Returned(f, internal_error_exception)
    ELSE IF ~_decision_allow(decision)
    THEN Returned(f, HTTPException(403, "policy_violation", VIOLATION_MSG,
                     [agent_id |-> f.effective_agent_id,
                      policy_id |-> o.policy_id,
                      decision_id |-> _decision_meta(decision).decision_id,
                      reasons |-> _decision_meta(decision).reasons]))
    ELSE CallNext(f, "dependency", AllowedState(f.effective_agent_id, decision))

\* The dependency has returned; the framework runs the route handler outside
\* the dependency's try.
policy_dependency_after_call_next(f, outcome) ==
    IF outcome = "returns" THEN HandlerResponse ELSE HandlerException

(***************************************************************************)
(* require_policy_with_context(policy_id, context, agent_id).middleware    *)
(***************************************************************************)

\* A variant in which the body's keys win over the closure's context.
merge_context_request_wins(request_context, context) ==
    [agent_id |-> IF request_context.agent_id # Absent THEN request_context.agent_id
                  ELSE context.agent_id,
     policy_id |-> IF request_context.policy_id # Absent THEN request_context.policy_id
                   ELSE context.policy_id]

\* {**request_context, **context}
MergeContext(request_context, context) ==
    [agent_id |-> IF context.agent_id # Absent THEN context.agent_id
                  ELSE request_context.agent_id,
     policy_id |-> IF context.policy_id # Absent THEN context.policy_id
                   ELSE request_context.policy_id]

with_context_begin(o, r) ==
    LET reads == r.method = "POST"
        body_json == IF reads THEN _read_and_replay_body(r) ELSE EmptyBodyJson
        f0 == [Frame0 EXCEPT !.body_reads = IF reads THEN 1 ELSE 0]
    IN
    IF ~body_json.isMapping
    THEN Returned(f0, internal_error)            \* body_json.get raises
    ELSE
    LET body_passport == BodyDict(TRUE, body_json.passport, NoPassportField)
        body_policy == BodyDict(TRUE, body_json.policy, NoPolicyField)
        extracted_agent_id == extract_agent_id(r, o.agent_id, body_json, TRUE)
        f1 == [f0 EXCEPT !.body_passport = body_passport, !.body_policy = body_policy,
                         !.agent_id = extracted_agent_id]
    IN
    IF ~Truthy(extracted_agent_id) /\ ~DictTruthy(body_passport, "agent_id")
    THEN Returned(f1, create_error_response(401, "missing_agent_id", MISSING_MSG,
                                            NoAdditional))
    ELSE
    LET effective_agent_id ==
            Or(extracted_agent_id, IF DictTruthy(body_passport, "agent_id")
                                   THEN body_passport.agent_id ELSE None)
        merged_context == MergeContext(body_json.ctx, o.context)
        f2 == [f1 EXCEPT !.effective_agent_id = effective_agent_id,
                         !.context = merged_context]
    IN Await(f2, "await_verify",
             dispatch_select(o, body_passport, body_policy, effective_agent_id,
                             merged_context))

with_context_after_verify(o, f, response) ==
    LET made == _make_request(response)
        decision == from_api_response(made.json)
    IN
    IF made.raised = "AportError" THEN Returned(f, api_error(made.error))
    ELSE IF decision.raised THEN Returned(f, internal_error)
    ELSE IF ~_decision_allow(decision)
    THEN Returned(f, create_error_response(403, "policy_violation", VIOLATION_MSG,
                     [agent_id |-> f.effective_agent_id,
                      policy_id |-> o.policy_id,
                      decision_id |-> _decision_meta(decision).decision_id,
                      reasons |-> _decision_meta(decision).reasons]))
    ELSE CallNext(f, "policy", AllowedState(f.effective_agent_id, decision))

\* every call_next of the closure is inside its try
with_context_after_call_next(f, outcome) ==
    CASE outcome = "returns" -> HandlerResponse
      [] outcome = "raises Exception" -> internal_error
      [] OTHER -> api_error(HandlerAportError)

(***************************************************************************)
(* client.py: the HTTP session and the keyset cache of an APortClient      *)
(***************************************************************************)

\* time.time() + (5 * 60)
TTL == 300

\* The clock advances in steps of half the TTL up to MaxTime.
TickSeconds == TTL \div 2
MaxTime == 300

\* The client objects of one process and the remote keyset fetches it issues.
MaxClients == 3
MaxFetches == 3

\* The coroutines that may call get_jwks concurrently.
Callers == {"t1", "t2"}

\* An Optional value that is None, or set to a time / a keyset fetched at a
\* time.
Unset == [set |-> FALSE, at |-> 0]
SetAt(t) == [set |-> TRUE, at |-> t]

\* APortClient.__init__: no session, no cached keyset.  owner says who holds
\* the object: the application, a mediation component (AgentPassportMiddleware
\* or one of the closures), or a call of a convenience function.
APortClient(owner) ==
    [owner |-> owner, session |-> "None", jwks_cache |-> Unset,
     jwks_cache_expiry |-> Unset]

\* create_client(): a new APortClient on every call.
create_client(owner) == APortClient(owner)

\* if self._session is None or self._session.closed: new ClientSession
_ensure_session(client) ==
    IF client.session \in {"None", "closed"}
    THEN [client EXCEPT !.session = "open"]
    ELSE client

\* APortClient.close (and __aexit__): closes an open session.
close(client) ==
    IF client.session = "open" THEN [client EXCEPT !.session = "closed"] ELSE client

\* A variant that also serves the entry at the instant it expires.
jwks_cache_valid_until_expiry(client, t) ==
    /\ client.jwks_cache.set
    /\ client.jwks_cache_expiry.set
    /\ t <= client.jwks_cache_expiry.at

\* self.jwks_cache and self.jwks_cache_expiry and time.time() < expiry
jwks_cache_valid(client, t) ==
    /\ client.jwks_cache.set
    /\ client.jwks_cache_expiry.set
    /\ t < client.jwks_cache_expiry.at

\* Responses to GET /jwks.json: keys says whether the JSON object has a
\* "keys" member, server_timing whether the response has that header.
JwksResponses ==
    { [kind |-> "ok", keys |-> k, server_timing |-> st] :
        k \in BOOLEAN, st \in BOOLEAN }
    \cup
    { [kind |-> k, keys |-> FALSE, server_timing |-> FALSE] :
        k \in {"http_error", "timeout"} }

\* _make_request for GET /jwks.json: [raised, keys, _meta]; a Server-Timing
\* header adds the "_meta" key to the returned object.
jwks_make_request(response) ==
    IF response.kind = "ok"
    THEN [raised |-> FALSE, keys |-> response.keys, _meta |-> response.server_timing]
    ELSE [raised |-> TRUE, keys |-> FALSE, _meta |-> FALSE]

\* Jwks(**response_data): the dataclass has the one field keys; a missing
\* keys or any other key raises TypeError.
Jwks(response_data) ==
    [raised |-> response_data.raised \/ ~response_data.keys \/ response_data._meta]

\* A variant that suspends between the two writes: the keyset is stored and
\* the expiry is left as it was.
get_jwks_store_keyset_only(client, t) ==
    [client EXCEPT !.jwks_cache = SetAt(t)]

\* A variant that keeps an entry another caller stored meanwhile.
get_jwks_store_unless_set(client, t) ==
    IF client.jwks_cache.set THEN client
    ELSE [client EXCEPT !.jwks_cache = SetAt(t), !.jwks_cache_expiry = SetAt(t + TTL)]

\* self.jwks_cache = Jwks(...); self.jwks_cache_expiry = time.time() + 5 * 60
get_jwks_store(client, t) ==
    [client EXCEPT !.jwks_cache = SetAt(t), !.jwks_cache_expiry = SetAt(t + TTL)]

\* A variant that drops the cached entry when the fetch fails.
get_jwks_failed_clears_cache(client) ==
    [client EXCEPT !.jwks_cache = Unset, !.jwks_cache_expiry = Unset]

\* except Exception: raise AportError(500, JWKS_FETCH_FAILED); the object's
\* fields are not written.
get_jwks_failed(client) == client

\* What a get_jwks call returned or raised.  For a keyset served from the
\* cache, before_expiry and fresh record whether the clock was before the
\* entry's expiry and whether the keyset was less than TTL old when it was
\* served; fetches counts the remote fetches the call issued.
NoReturn == [kind |-> "none", keyset |-> Unset, before_expiry |-> FALSE,
             fresh |-> FALSE, fetches |-> 0, error |-> NoError]
ReturnCached(client, t) ==
    [kind |-> "cached", keyset |-> client.jwks_cache,
     before_expiry |-> t < client.jwks_cache_expiry.at,
     fresh |-> t - client.jwks_cache.at < TTL, fetches |-> 0, error |-> NoError]
ReturnFetched(t) ==
    [kind |-> "fetched", keyset |-> SetAt(t), before_expiry |-> TRUE,
     fresh |-> TRUE, fetches |-> 1, error |-> NoError]
RaiseFetchFailed ==
    [kind |-> "raised", keyset |-> Unset, before_expiry |-> FALSE,
     fresh |-> FALSE, fetches |-> 1, error |-> AportError(500, "JWKS_FETCH_FAILED", None)]

\* The process as deployed: a mediation component with its client and an
\* APortClient the application built for itself.
InitialClients == << APortClient("component"), APortClient("application") >>

(***************************************************************************)
(* Configuration                                                           *)
(***************************************************************************)

SkipArgs == { [isNone |-> TRUE, paths |-> << >>],
              [isNone |-> FALSE, paths |-> << <<"a">> >>] }

\* The skip_paths argument when the caller passes the empty list.
EmptySkipArg == [isNone |-> FALSE, paths |-> << >>]

\* AgentPassportMiddlewareOptions(...) as built by AgentPassportMiddleware and
\* by agent_passport_middleware.
MiddlewareOptions ==
    { [entry |-> e, policy_id |-> pid, passport_from_body |-> pfb,
       policy_from_body |-> polfb, fail_closed |-> fc, skip_arg |-> sa,
       skip_paths |-> OptionsSkipPaths(sa), agent_id |-> None, context |-> NoCtx] :
        e \in {"AgentPassportMiddleware", "agent_passport_middleware"},
        pid \in {None, "p1"}, pfb \in BOOLEAN, polfb \in BOOLEAN, fc \in BOOLEAN,
        sa \in SkipArgs }
    \cup
    \* skip_paths=[] supplied by the caller
    { [entry |-> e, policy_id |-> "p1", passport_from_body |-> TRUE,
       policy_from_body |-> TRUE, fail_closed |-> TRUE, skip_arg |-> EmptySkipArg,
       skip_paths |-> OptionsSkipPaths(EmptySkipArg), agent_id |-> None,
       context |-> NoCtx] :
        e \in {"AgentPassportMiddleware", "agent_passport_middleware"} }

\* The closures of require_policy(policy_id, agent_id) and
\* require_policy_with_context(policy_id, context, agent_id): they have no
\* options object; the body is always honoured and there are no skip paths.
RequireOptions ==
    { [entry |-> "require_policy", policy_id |-> "p1", passport_from_body |-> TRUE,
       policy_from_body |-> TRUE, fail_closed |-> TRUE,
       skip_arg |-> [isNone |-> TRUE, paths |-> << >>], skip_paths |-> << >>,
       agent_id |-> a, context |-> NoCtx] : a \in {None, "a1"} }
    \cup
    { [entry |-> "require_policy_with_context", policy_id |-> "p1",
       passport_from_body |-> TRUE, policy_from_body |-> TRUE, fail_closed |-> TRUE,
       skip_arg |-> [isNone |-> TRUE, paths |-> << >>], skip_paths |-> << >>,
       agent_id |-> a, context |-> c] :
        a \in {None, "a1"},
        c \in {NoCtx, [agent_id |-> "oa", policy_id |-> Absent]} }

Configs == MiddlewareOptions \cup RequireOptions

\* DEFAULT_OPTIONS = AgentPassportMiddlewareOptions()
DEFAULT_OPTIONS ==
    [entry |-> "AgentPassportMiddleware", policy_id |-> None,
     passport_from_body |-> TRUE, policy_from_body |-> TRUE, fail_closed |-> TRUE,
     skip_arg |-> [isNone |-> TRUE, paths |-> << >>],
     skip_paths |-> OptionsSkipPaths([isNone |-> TRUE, paths |-> << >>]),
     agent_id |-> None, context |-> NoCtx]

(***************************************************************************)
(* State                                                                   *)
(***************************************************************************)

VARIABLES
    opts,       \* the configuration the entry point was built with
    pc,         \* "idle", "await_verify", "await_view", "call_next", "done"
    request,    \* the request being mediated
    frame,      \* the locals of the mediation
    calls,      \* the remote calls issued for the request, in order
    replies,    \* the responses to those calls
    state,      \* request.state
    invoked,    \* the downstream handler has been invoked
    result      \* the response or exception the mediation ended with

\* The client objects of the process, its clock and the get_jwks calls.
VARIABLES
    clients,    \* the APortClient objects created so far, in order
    now,        \* time.time()
    jcall,      \* per caller: its get_jwks call in flight
    jret,       \* per caller: what its last get_jwks call returned or raised
    fetches,    \* the remote fetches of /jwks.json issued so far, each with
                \* the holder of the issuing client and whether a keyset
                \* had been stored in the process less than TTL before
    last_stored,\* when a fetched keyset was last stored by any client
    down        \* the process has shut down

\* The requests one mediation component has in flight at the same time.
VARIABLES
    med         \* per request slot: the coroutine's position, locals, calls,
                \* replies, request.state and result

mvars == <<opts, pc, request, frame, calls, replies, state, invoked, result, med>>
cvars == <<clients, now, jcall, jret, fetches, last_stored, down>>
vars == <<mvars, cvars>>

NoCall == [pc |-> "idle", client |-> 0]

\* The clients right after the process has been set up.
ClientInit ==
    /\ clients = InitialClients
    /\ now = 0
    /\ jcall = [k \in Callers |-> NoCall]
    /\ jret = [k \in Callers |-> NoReturn]
    /\ fetches = << >>
    /\ last_stored = Unset
    /\ down = FALSE

NoRequest == [method |-> "GET", path |-> << >>, x_agent_passport_id |-> None,
              x_agent_id |-> None, body |-> EmptyBody]

\* The coroutines of dispatch that run concurrently on one component.
Slots == {"r1", "r2"}

\* A slot with no request in it.
NoMediation == [pc |-> "idle", request |-> NoRequest, frame |-> Frame0,
                calls |-> << >>, replies |-> << >>, state |-> NoState,
                invoked |-> FALSE, handler |-> "none", result |-> NoResult]

Init ==
    /\ opts \in Configs
    /\ pc = "idle"
    /\ request = NoRequest
    /\ frame = Frame0
    /\ calls = << >>
    /\ replies = << >>
    /\ state = NoState
    /\ invoked = FALSE
    /\ result = NoResult
    /\ med = [s \in Slots |-> NoMediation]
    /\ ClientInit

\* A request enters an entry point and runs to its first await or its return.
Enter(r, out) ==
    /\ pc = "idle"
    /\ request' = r
    /\ pc' = out.pc
    /\ frame' = out.frame
    /\ calls' = out.call
    /\ replies' = << >>
    /\ state' = out.state
    /\ invoked' = FALSE
    /\ result' = out.result
    /\ UNCHANGED <<opts, med, cvars>>

\* The mediation resumes after the reply to its remote call and runs to its
\* next await or its return.
Resume(response, out) ==
    /\ replies' = Append(replies, response)
    /\ calls' = calls \o out.call
    /\ pc' = out.pc
    /\ frame' = out.frame
    /\ state' = out.state
    /\ result' = out.result
    /\ UNCHANGED <<opts, request, invoked, med, cvars>>

dispatch(r) ==
    /\ opts.entry = "AgentPassportMiddleware"
    /\ Enter(r, dispatch_begin(opts, r))

\* agent_passport_middleware(options).middleware: the closure's statements
\* are those of dispatch, with opts and client in place of self.options and
\* self.client.
middleware(r) ==
    /\ opts.entry = "agent_passport_middleware"
    /\ Enter(r, dispatch_begin(opts, r))

policy_dependency(r) ==
    /\ opts.entry = "require_policy"
    /\ Enter(r, policy_dependency_begin(opts, r))

with_context_middleware(r) ==
    /\ opts.entry = "require_policy_with_context"
    /\ Enter(r, with_context_begin(opts, r))

\* The service answers (or fails to answer) the pending verify call.
verify_replied(response) ==
    /\ pc = "await_verify"
    /\ Resume(response,
              CASE opts.entry = "require_policy" ->
                       policy_dependency_after_verify(opts, frame, response)
                [] opts.entry = "require_policy_with_context" ->
                       with_context_after_verify(opts, frame, response)
                [] OTHER -> dispatch_after_verify(opts, frame, response))

\* The service answers (or fails to answer) the pending get_passport_view.
view_replied(response) ==
    /\ pc = "await_view"
    /\ Resume(response, dispatch_after_view(opts, frame, response))

\* The downstream handler runs.
call_next(outcome) ==
    /\ pc = "call_next"
    /\ invoked' = TRUE
    /\ pc' = "done"
    /\ result' = CASE opts.entry = "require_policy" ->
                          policy_dependency_after_call_next(frame, outcome)
                   [] opts.entry = "require_policy_with_context" ->
                          with_context_after_call_next(frame, outcome)
                   [] OTHER -> dispatch_after_call_next(frame, outcome)
    /\ UNCHANGED <<opts, request, frame, calls, replies, state, med, cvars>>

\* The response has been sent; the entry point is ready for the next request.
finish ==
    /\ pc = "done"
    /\ pc' = "idle"
    /\ request' = NoRequest
    /\ frame' = Frame0
    /\ calls' = << >>
    /\ replies' = << >>
    /\ state' = NoState
    /\ invoked' = FALSE
    /\ result' = NoResult
    /\ UNCHANGED <<opts, med, cvars>>

Next ==
    \/ \E r \in InputRequests : dispatch(r)
    \/ \E r \in InputRequests : middleware(r)
    \/ \E r \in InputRequests : policy_dependency(r)
    \/ \E r \in InputRequests : with_context_middleware(r)
    \/ \E response \in VerifyResponses : verify_replied(response)
    \/ \E response \in ViewResponses : view_replied(response)
    \/ \E outcome \in HandlerOutcomes : call_next(outcome)
    \/ finish

Spec == Init /\ [][Next]_vars

\* Every remote call is bounded by the session's ClientTimeout(total=...):
\* a pending call eventually gets its response, its connection error or its
\* timeout.
LiveSpec ==
    /\ Spec
    /\ WF_vars(\E response \in VerifyResponses : verify_replied(response))
    /\ WF_vars(\E response \in ViewResponses : view_replied(response))

(***************************************************************************)
(* The clients of a process: sessions and keyset cache                     *)
(***************************************************************************)

\* APortClient.get_jwks of client c in the client list cs, from its start to
\* its return from the cache or to its remote fetch (_make_request first
\* ensures the session).
get_jwks_begin(k, cs, c) ==
    IF jwks_cache_valid(cs[c], now)
    THEN /\ clients' = cs
         /\ jret' = [jret EXCEPT ![k] = ReturnCached(cs[c], now)]
         /\ UNCHANGED <<jcall, fetches>>
    ELSE /\ Len(fetches) < MaxFetches
         /\ clients' = [cs EXCEPT ![c] = _ensure_session(cs[c])]
         /\ jcall' = [jcall EXCEPT ![k] = [pc |-> "fetching", client |-> c]]
         /\ jret' = [jret EXCEPT ![k] = NoReturn]
         /\ fetches' = Append(fetches,
                [owner |-> cs[c].owner,
                 within_ttl |-> last_stored.set /\ now - last_stored.at < TTL])

\* Caller k calls get_jwks on a client held by the application or by a
\* mediation component.
get_jwks(k, c) ==
    /\ ~down
    /\ jcall[k].pc = "idle"
    /\ clients[c].owner # "convenience"
    /\ get_jwks_begin(k, clients, c)
    /\ UNCHANGED <<now, last_stored, down, mvars>>

\* Caller k calls the get_jwks() convenience function of middleware.py:
\* client = create_client(); jwks = await client.get_jwks()
middleware_get_jwks(k) ==
    /\ ~down
    /\ jcall[k].pc = "idle"
    /\ Len(clients) < MaxClients
    /\ get_jwks_begin(k, Append(clients, create_client("convenience")),
                      Len(clients) + 1)
    /\ UNCHANGED <<now, last_stored, down, mvars>>

\* The pending fetch of caller k is answered: the keyset is stored with its
\* expiry and returned, or the call raises JWKS_FETCH_FAILED.
jwks_replied(k, response) ==
    /\ ~down
    /\ jcall[k].pc = "fetching"
    /\ LET c == jcall[k].client
           response_data == jwks_make_request(response)
       IN IF ~Jwks(response_data).raised
          THEN /\ clients' = [clients EXCEPT ![c] = get_jwks_store(clients[c], now)]
               /\ jret' = [jret EXCEPT ![k] = ReturnFetched(now)]
               /\ last_stored' = SetAt(now)
          ELSE /\ clients' = [clients EXCEPT ![c] = get_jwks_failed(clients[c])]
               /\ jret' = [jret EXCEPT ![k] = RaiseFetchFailed]
               /\ UNCHANGED last_stored
    /\ jcall' = [jcall EXCEPT ![k] = NoCall]
    /\ UNCHANGED <<now, fetches, down, mvars>>

\* A verify or view call of the holder of client c: _make_request ensures
\* the session.
remote_call(c) ==
    /\ ~down
    /\ clients[c].owner # "convenience"
    /\ clients' = [clients EXCEPT ![c] = _ensure_session(clients[c])]
    /\ UNCHANGED <<now, jcall, jret, fetches, last_stored, down, mvars>>

\* The application closes a client it holds (close() or leaving its
\* `async with` block).  middleware.py calls close() nowhere.
close_client(c) ==
    /\ ~down
    /\ clients[c].owner = "application"
    /\ clients[c].session = "open"
    /\ clients' = [clients EXCEPT ![c] = close(clients[c])]
    /\ UNCHANGED <<now, jcall, jret, fetches, last_stored, down, mvars>>

\* The clock advances.
Tick ==
    /\ ~down
    /\ now + TickSeconds <= MaxTime
    /\ now' = now + TickSeconds
    /\ UNCHANGED <<clients, jcall, jret, fetches, last_stored, down, mvars>>

\* The process shuts down: the application releases the clients it holds;
\* the clients created by middleware.py are held by the component, a
\* closure or nobody, and no code closes them.
shutdown ==
    /\ ~down
    /\ down' = TRUE
    /\ clients' = [i \in 1..Len(clients) |->
                      IF clients[i].owner = "application"
                      THEN close(clients[i]) ELSE clients[i]]
    /\ UNCHANGED <<now, jcall, jret, fetches, last_stored, mvars>>

ClientNext ==
    \/ \E k \in Callers : \E c \in 1..Len(clients) : get_jwks(k, c)
    \/ \E k \in Callers : middleware_get_jwks(k)
    \/ \E k \in Callers : \E response \in JwksResponses : jwks_replied(k, response)
    \/ \E c \in 1..Len(clients) : remote_call(c)
    \/ \E c \in 1..Len(clients) : close_client(c)
    \/ Tick
    \/ shutdown

\* The process with the default mediation component installed and no
\* request in flight.
ClientSpecInit ==
    /\ opts = DEFAULT_OPTIONS
    /\ pc = "idle"
    /\ request = NoRequest
    /\ frame = Frame0
    /\ calls = << >>
    /\ replies = << >>
    /\ state = NoState
    /\ invoked = FALSE
    /\ result = NoResult
    /\ med = [s \in Slots |-> NoMediation]
    /\ ClientInit

ClientSpec == ClientSpecInit /\ [][ClientNext]_vars

(***************************************************************************)
(* Concurrent mediations of one AgentPassportMiddleware                    *)
(***************************************************************************)

\* The components, requests, responses of the service that the concurrent
\* mediations are run with.
ConcurrentConfigs ==
    { o \in MiddlewareOptions :
        /\ o.entry = "AgentPassportMiddleware" /\ o.skip_arg.isNone
        /\ o.passport_from_body /\ o.policy_from_body }
ConcurrentRequests ==
    { r \in InputRequests :
        /\ r.method \in {"GET", "POST"}
        /\ r.path = <<"a", "p">>
        /\ <<r.x_agent_passport_id, r.x_agent_id>> \in {<<None, None>>, <<None, "a4">>}
        /\ r.body \in {EmptyBody, FullBody} }
ConcurrentVerifyResponses ==
    { response \in VerifyResponses :
        \/ /\ response.kind = "ok" /\ ~response.has_decision
           /\ response.top.reasons = "one"
        \/ response.kind = "timeout"
        \/ response.kind = "http_error" /\ response.status = 403 }
ConcurrentViewResponses ==
    { response \in ViewResponses :
        \/ response.kind = "ok" /\ response.view_agent_id = Absent
        \/ response.kind = "http_error" /\ response.status = 404 }

\* A variant in which the locals live on the component: every coroutine
\* resumes with the locals of the first one.
frame_of_first_coroutine(m, s) == m["r1"].frame

\* The locals of dispatch belong to the coroutine of the request.
FrameOf(m, s) == m[s].frame

\* The variables of the single mediation of Spec.
single == <<pc, request, frame, calls, replies, state, invoked, result>>

\* self.client of the component is the first client of the process.
ComponentClient == 1

\* A request enters dispatch while others may be in flight, and runs to its
\* first await or its return; a remote call first ensures the session of the
\* component's client.
concurrent_dispatch(s, r) ==
    /\ med[s].pc = "idle"
    /\ LET out == dispatch_begin(opts, r)
       IN /\ med' = [med EXCEPT ![s] =
                        [pc |-> out.pc, request |-> r, frame |-> out.frame,
                         calls |-> out.call, replies |-> << >>, state |-> out.state,
                         invoked |-> FALSE, handler |-> "none",
                         result |-> out.result]]
          /\ clients' = IF out.call # << >>
                        THEN [clients EXCEPT ![ComponentClient] =
                                 _ensure_session(clients[ComponentClient])]
                        ELSE clients
    /\ UNCHANGED <<opts, single, now, jcall, jret, fetches, last_stored, down>>

\* The coroutine in slot s resumes with the reply to its remote call.
ConcurrentResume(s, response, out) ==
    /\ med' = [med EXCEPT ![s] =
                  [@ EXCEPT !.pc = out.pc, !.frame = out.frame,
                            !.calls = @ \o out.call,
                            !.replies = Append(@, response),
                            !.state = out.state, !.result = out.result]]
    /\ UNCHANGED <<opts, single, cvars>>

concurrent_verify_replied(s, response) ==
    /\ med[s].pc = "await_verify"
    /\ ConcurrentResume(s, response,
                        dispatch_after_verify(opts, FrameOf(med, s), response))

concurrent_view_replied(s, response) ==
    /\ med[s].pc = "await_view"
    /\ ConcurrentResume(s, response,
                        dispatch_after_view(opts, FrameOf(med, s), response))

\* The downstream handler of the request in slot s runs.
concurrent_call_next(s, outcome) ==
    /\ med[s].pc = "call_next"
    /\ med' = [med EXCEPT ![s] =
                  [@ EXCEPT !.pc = "done", !.invoked = TRUE, !.handler = outcome,
                            !.result = dispatch_after_call_next(FrameOf(med, s),
                                                                outcome)]]
    /\ UNCHANGED <<opts, single, cvars>>

\* The response of the request in slot s has been sent.
concurrent_finish(s) ==
    /\ med[s].pc = "done"
    /\ med' = [med EXCEPT ![s] = NoMediation]
    /\ UNCHANGED <<opts, single, cvars>>

ConcurrentNext ==
    \/ \E s \in Slots : \E r \in ConcurrentRequests : concurrent_dispatch(s, r)
    \/ \E s \in Slots : \E response \in ConcurrentVerifyResponses :
           concurrent_verify_replied(s, response)
    \/ \E s \in Slots : \E response \in ConcurrentViewResponses :
           concurrent_view_replied(s, response)
    \/ \E s \in Slots : \E outcome \in HandlerOutcomes :
           concurrent_call_next(s, outcome)
    \/ \E s \in Slots : concurrent_finish(s)

ConcurrentInit ==
    /\ opts \in ConcurrentConfigs
    /\ pc = "idle"
    /\ request = NoRequest
    /\ frame = Frame0
    /\ calls = << >>
    /\ replies = << >>
    /\ state = NoState
    /\ invoked = FALSE
    /\ result = NoResult
    /\ med = [s \in Slots |-> NoMediation]
    /\ ClientInit

ConcurrentSpec == ConcurrentInit /\ [][ConcurrentNext]_vars

(***************************************************************************)
(* Properties                                                              *)
(***************************************************************************)

VerifyOps == {"verify_policy", "verify_policy_with_passport",
              "verify_policy_with_policy_in_body"}

\* The request has been handed on (or is about to be) to the downstream handler.
Continued == pc = "call_next" \/ invoked

\* The mediation ended in a rejection without invoking the handler.
Rejected == pc = "done" /\ ~invoked /\ result.kind = "rejection"

\* A non-empty dict, read off the record.
NonEmptyDict(d, key) == d.kind = "dict" /\ (d[key] # None \/ d.extra)

\* The request resolved an identity or a passport.
ResolvedSomeone == Truthy(frame.agent_id) \/ NonEmptyDict(frame.body_passport, "agent_id")

\* A policy reference applies: a configured id or an honoured body pack.
PolicyReferenceApplies ==
    Truthy(opts.policy_id) \/ NonEmptyDict(frame.body_policy, "id")

\* The decision fields the service sent in a response.
SentDecision(response) ==
    IF response.has_decision THEN response.decision ELSE response.top

\* The status and reasons of the failure a failed response stands for.
FailureStatus(response) ==
    CASE response.kind = "http_error" -> response.status
      [] response.kind = "network_error" -> 0
      [] OTHER -> 408
FailureReasons(response) ==
    CASE response.kind = "http_error" ->
            IF response.top.reasons = Absent THEN None ELSE response.top.reasons
      [] response.kind = "network_error" -> "NETWORK_ERROR"
      [] OTHER -> "TIMEOUT"

C2_DenialRejected ==
    (/\ Len(replies) = 1 /\ calls[1].op \in VerifyOps
     /\ replies[1].kind = "ok"
     /\ SentDecision(replies[1]).decision_id # Absent
     /\ SentDecision(replies[1]).allow = "false") =>
        /\ Rejected
        /\ result.status = 403
        /\ result.error = "policy_violation"
        /\ result.agent_id = frame.effective_agent_id
        /\ LET ids == { x \in {opts.policy_id, frame.body_policy.id} : Truthy(x) }
           IN IF ids = {} THEN result.policy_id = None ELSE result.policy_id \in ids
        /\ result.decision_id = SentDecision(replies[1]).decision_id
        /\ result.reasons = IF SentDecision(replies[1]).reasons = Absent
                            THEN "empty" ELSE SentDecision(replies[1]).reasons

C2_Witness ==
    /\ Rejected /\ result.error = "policy_violation"
    /\ result.decision_id = "d1" /\ result.reasons = "one"
    /\ result.agent_id = "a4" /\ result.policy_id = "p1"

\* The path starts with one of the configured skip prefixes.
PathHasSkipPrefix ==
    \E i \in 1..Len(opts.skip_paths) :
        /\ Len(opts.skip_paths[i]) <= Len(request.path)
        /\ \A k \in 1..Len(opts.skip_paths[i]) : opts.skip_paths[i][k] = request.path[k]

\* The mediation raised while reading the request, before any remote call.
ResolutionRaised ==
    pc = "done" /\ ~invoked /\ calls = << >> /\ result.error = "internal_error"

\* C3: a non-skipped request that resolves neither an identity nor a
\* passport is rejected with 401 missing_agent_id when fail_closed, and is
\* continued with nothing attached otherwise; no remote call is made.
C3_MissingIdentity ==
    (/\ pc \in {"call_next", "done"}
     /\ ~PathHasSkipPrefix
     /\ ~ResolutionRaised
     /\ ~ResolvedSomeone) =>
        /\ calls = << >>
        /\ IF opts.fail_closed
           THEN Rejected /\ result.status = 401 /\ result.error = "missing_agent_id"
           ELSE Continued /\ state = NoState

C3_WitnessClosed ==
    /\ Rejected /\ result.error = "missing_agent_id" /\ opts.fail_closed
    /\ opts.entry = "AgentPassportMiddleware" /\ Truthy(opts.policy_id)

C3_WitnessOpen ==
    /\ invoked /\ ~opts.fail_closed /\ ~PathHasSkipPrefix /\ ~ResolvedSomeone
    /\ state = NoState /\ Truthy(opts.policy_id)

\* C4: a request whose path starts with a skip prefix makes no remote call,
\* reads no body, attaches nothing and continues, whatever else it carries.
C4_SkipPath ==
    (pc # "idle" /\ PathHasSkipPrefix) =>
        /\ calls = << >>
        /\ frame.body_reads = 0
        /\ state = NoState
        /\ Continued

C4_Witness ==
    /\ invoked /\ PathHasSkipPrefix /\ request.method = "POST"
    /\ request.body.kind = "mapping" /\ opts.fail_closed /\ Truthy(opts.policy_id)
    /\ request.x_agent_id = None /\ request.x_agent_passport_id = None

\* C5: at most one remote call is made, and the verify operation is chosen
\* in this order: body policy pack -> verify_policy_with_policy_in_body
\* (with the passport if one was resolved, else the identity); passport ->
\* verify_policy_with_passport; else verify_policy with the identity.
C5_OperationSelection ==
    /\ Len(calls) <= 1
    /\ (pc = "await_verify" => (Len(calls) = 1 /\ calls[1].op \in VerifyOps))
    /\ (Len(calls) = 1 /\ calls[1].op \in VerifyOps) =>
         LET call == calls[1]
             pack == NonEmptyDict(frame.body_policy, "id")
             pass == NonEmptyDict(frame.body_passport, "agent_id")
         IN /\ pack => /\ call.op = "verify_policy_with_policy_in_body"
                        /\ call.body.policy = frame.body_policy
                        /\ IF pass
                           THEN call.body.passport = frame.body_passport
                           ELSE /\ call.body.passport = NoPassportField
                                /\ call.body.context.agent_id =
                                       frame.effective_agent_id
            /\ (~pack /\ pass) => /\ call.op = "verify_policy_with_passport"
                                  /\ call.body.passport = frame.body_passport
                                  /\ call.body.policy = NoPolicyField
            /\ (~pack /\ ~pass) => /\ call.op = "verify_policy"
                                   /\ call.body.passport = NoPassportField
                                   /\ call.body.policy = NoPolicyField
                                   /\ call.body.context.agent_id =
                                          frame.effective_agent_id

C5_Witness ==
    /\ pc = "await_verify"
    /\ calls[1].op = "verify_policy_with_policy_in_body"
    /\ NonEmptyDict(frame.body_passport, "agent_id")
    /\ Truthy(opts.policy_id)

\* The passport and the policy pack of the body that the entry point honours:
\* the body was read, the option allows it and the field is a dict.
HonouredPassport ==
    IF /\ frame.body_reads = 1 /\ opts.passport_from_body
       /\ request.body.kind = "mapping" /\ request.body.passport.kind = "dict"
    THEN request.body.passport ELSE NoPassportField
HonouredPolicy ==
    IF /\ frame.body_reads = 1 /\ opts.policy_from_body
       /\ request.body.kind = "mapping" /\ request.body.policy.kind = "dict"
    THEN request.body.policy ELSE NoPolicyField

\* The first non-empty source in the precedence order.
FirstNonEmpty(seq) ==
    IF \E i \in 1..Len(seq) : Truthy(seq[i])
    THEN seq[CHOOSE i \in 1..Len(seq) :
                 Truthy(seq[i]) /\ \A j \in 1..(i - 1) : ~Truthy(seq[j])]
    ELSE None

PrecedenceIdentity ==
    FirstNonEmpty(<<opts.agent_id, HonouredPassport.agent_id,
                    request.x_agent_passport_id, request.x_agent_id>>)

\* C6: in every entry point the identity is the first non-empty of: the
\* explicit caller-supplied agent_id, the honoured body passport's agent_id,
\* the x-agent-passport-id header, the x-agent-id header.
C6_IdentityPrecedence ==
    /\ pc \in {"await_verify", "await_view"} => frame.agent_id = PrecedenceIdentity
    /\ (pc = "done" /\ result.error = "missing_agent_id") => ~Truthy(PrecedenceIdentity)

\* C7: with an honoured body policy pack and a configured policy id, the
\* call goes to the IN_BODY endpoint with the pack as body.policy and the
\* pack's id (when it has one) as context.policy_id; the configured id is
\* not sent.  A call refers to one policy: the pack (IN_BODY) or the
\* configured id in the path, never both.
C7_BodyPolicyOverridesConfigured ==
    /\ Len(calls) <= 1
    /\ (/\ Len(calls) = 1
        /\ NonEmptyDict(HonouredPolicy, "id")
        /\ Truthy(opts.policy_id)) =>
            /\ calls[1].route = "/api/verify/policy"
            /\ calls[1].param = "IN_BODY"
            /\ calls[1].body.policy = HonouredPolicy
            /\ HonouredPolicy.id # None =>
                   calls[1].body.context.policy_id = HonouredPolicy.id
            /\ calls[1].body.context.policy_id # opts.policy_id
    /\ (Len(calls) = 1 /\ calls[1].op \in VerifyOps) =>
            IF calls[1].body.policy # NoPolicyField
            THEN calls[1].param = "IN_BODY"
            ELSE calls[1].param = opts.policy_id

C7_Witness ==
    /\ pc = "await_verify"
    /\ HonouredPolicy.id = "custom"
    /\ opts.policy_id = "p1"
    /\ request.body.ctx.policy_id = "bp"
    /\ calls[1].body.context.policy_id = "custom"

\* C8: the policy_id of a policy_violation rejection is the id of the policy
\* that was applied: the body pack's id when the pack was used for the
\* verification, else the configured id.
C8_ViolationNamesAppliedPolicy ==
    (/\ Rejected /\ result.error = "policy_violation"
     /\ calls[1].op = "verify_policy_with_policy_in_body" =>
            calls[1].body.policy.id # None) =>
        result.policy_id = IF calls[1].op = "verify_policy_with_policy_in_body"
                           THEN calls[1].body.policy.id
                           ELSE opts.policy_id

\* C9: with no policy reference, a resolved passport is attached and the
\* request continues without a remote call; otherwise exactly one
\* get_passport_view call is made for the resolved identity, and the request
\* continues with the view attached on success or is rejected with
\* agent_verification_failed and the failure's status.
C9_NoPolicyPath ==
    (/\ pc \in {"await_view", "call_next", "done"}
     /\ ~PathHasSkipPrefix /\ ~ResolutionRaised
     /\ ResolvedSomeone /\ ~PolicyReferenceApplies) =>
        IF NonEmptyDict(frame.body_passport, "agent_id")
        THEN /\ calls = << >>
             /\ Continued
             /\ state.agent = [set |-> TRUE, agent_id |-> frame.body_passport.agent_id,
                               rest |-> "passport"]
             /\ frame.body_passport = HonouredPassport
        ELSE /\ Len(calls) = 1
             /\ calls[1].op = "get_passport_view"
             /\ calls[1].method = "GET"
             /\ calls[1].param = PrecedenceIdentity
             /\ pc = "await_view" <=> replies = << >>
             /\ Len(replies) <= 1
             /\ Len(replies) = 1 =>
                   IF replies[1].kind = "ok"
                   THEN Continued /\ state.agent.set /\ state.agent.rest = "view"
                   ELSE /\ Rejected
                        /\ result.error = "agent_verification_failed"
                        /\ result.status = FailureStatus(replies[1])

C9_WitnessPassport ==
    /\ invoked /\ ~PolicyReferenceApplies /\ state.agent.rest = "passport"
    /\ request.x_agent_id = "a4"

C9_WitnessView ==
    /\ invoked /\ ~PolicyReferenceApplies /\ state.agent.rest = "view"

C9_WitnessViewFailed ==
    /\ Rejected /\ result.error = "agent_verification_failed" /\ result.status = 404

\* C10: on the policy path every failure raised by the Decision Client ends
\* the mediation in an api_error rejection with the failure's status and
\* reasons; the handler is not invoked.
C10_ClientFailureIsApiError ==
    (/\ Len(replies) = 1 /\ calls[1].op \in VerifyOps
     /\ replies[1].kind # "ok") =>
        /\ Rejected
        /\ result.error = "api_error"
        /\ result.status = FailureStatus(replies[1])
        /\ result.reasons = FailureReasons(replies[1])

C10_Witness ==
    /\ Rejected /\ result.error = "api_error" /\ result.status = 403
    /\ result.reasons = "one" /\ replies[1].kind = "http_error"

\* C11: a connection error and a timeout of a remote call become, in
\* _make_request, a failure without decision id: reason NETWORK_ERROR for the
\* connection error, status 408 and reason TIMEOUT for the timeout.  The
\* mediation then ends in a structured rejection (never an exception): on
\* the policy path api_error with that reason, and status 408 for a timeout.
C11_TransportFailureConverted ==
    /\ \A response \in VerifyResponses \cup ViewResponses :
          (response.kind \in {"network_error", "timeout"}) =>
              LET made == _make_request(response)
              IN /\ made.raised = "AportError"
                 /\ made.error.decision_id = None
                 /\ made.error.reasons = (IF response.kind = "timeout"
                                          THEN "TIMEOUT" ELSE "NETWORK_ERROR")
                 /\ (response.kind = "timeout") => (made.error.status = 408)
    /\ (Len(replies) = 1 /\ replies[1].kind \in {"network_error", "timeout"}) =>
          /\ Rejected
          /\ result.decision_id = Absent
          /\ (calls[1].op \in VerifyOps) =>
                 /\ result.error = "api_error"
                 /\ result.reasons = (IF replies[1].kind = "timeout"
                                      THEN "TIMEOUT" ELSE "NETWORK_ERROR")
                 /\ (replies[1].kind = "timeout") => (result.status = 408)
          /\ (calls[1].op = "get_passport_view") =>
                 (result.error = "agent_verification_failed")

C11_Witness ==
    /\ Rejected /\ Len(replies) = 1
    /\ replies[1].kind = "timeout" /\ calls[1].op \in VerifyOps
    /\ result.error = "api_error" /\ result.status = 408 /\ result.reasons = "TIMEOUT"

\* A body that is JSON but not an object, read by an entry point that then
\* calls .get / .items on it.
NonObjectBodyFault ==
    /\ pc # "idle" /\ frame.body_reads = 1 /\ request.body.kind = "nonmapping"
    /\ \/ opts.passport_from_body
       \/ opts.policy_from_body
       \/ Truthy(opts.policy_id) /\ Truthy(PrecedenceIdentity)

\* A success response from which no decision can be built (TypeError).
NoDecisionFault ==
    /\ Len(replies) = 1 /\ calls[1].op \in VerifyOps /\ replies[1].kind = "ok"
    /\ \/ SentDecision(replies[1]).decision_id = Absent
       \/ SentDecision(replies[1]).allow = Absent

\* C12: an exception during resolution or verification that is not a client
\* failure ends the mediation in a rejection with status 500 and code
\* internal_error whose body has only the fixed code and the fixed message.
C12_InternalErrorIsOpaque ==
    (NonObjectBodyFault \/ NoDecisionFault) =>
        /\ Rejected
        /\ result.status = 500
        /\ result.error = "internal_error"
        /\ result.message = "Internal server error"
        /\ result.agent_id = Absent /\ result.policy_id = Absent
        /\ result.decision_id = Absent /\ result.reasons = Absent

C12_Witness ==
    /\ NoDecisionFault /\ Rejected /\ result.error = "internal_error"
    /\ opts.entry = "AgentPassportMiddleware"

C12_WitnessBody ==
    /\ NonObjectBodyFault /\ Rejected /\ result.error = "internal_error"
    /\ opts.entry = "require_policy" /\ result.via = "HTTPException"

\* The mediation of request r under options o, from its start to the
\* hand-over to the handler or the rejection, given the replies it got.
Mediate(o, r, rs) ==
    LET b == dispatch_begin(o, r)
    IN CASE b.pc = "await_verify" /\ rs # << >> -> dispatch_after_verify(o, b.frame, rs[1])
         [] b.pc = "await_view" /\ rs # << >> -> dispatch_after_view(o, b.frame, rs[1])
         [] OTHER -> b

\* The reply stands for a failed call, a denial or an unusable decision.
NotAnAllow(response) ==
    \/ response.kind # "ok"
    \/ SentDecision(response).allow # "true"
    \/ SentDecision(response).decision_id = Absent

\* C13: for a request that resolved an identity or a passport the outcome
\* does not depend on fail_closed: the mediation under the opposite setting
\* reaches the same hand-over or the same rejection, and a failed call, a
\* denial or an internal fault is rejected under either setting.
C13_FailClosedOnlyForMissingIdentity ==
    (/\ opts.entry \in {"AgentPassportMiddleware", "agent_passport_middleware"}
     /\ ResolvedSomeone
     /\ pc = "call_next" \/ (pc = "done" /\ ~invoked)) =>
        /\ LET out == Mediate([opts EXCEPT !.fail_closed = ~opts.fail_closed],
                              request, replies)
           IN /\ out.pc = pc
              /\ out.frame = frame
              /\ out.state = state
              /\ out.result = result
        /\ (Len(replies) = 1 /\ calls[1].op \in VerifyOps /\ NotAnAllow(replies[1])) =>
               Rejected
        /\ (Len(replies) = 1 /\ replies[1].kind # "ok") => Rejected

C13_Witness ==
    /\ ~opts.fail_closed /\ ResolvedSomeone /\ Rejected /\ Len(replies) = 1
    /\ result.error = "api_error" /\ replies[1].kind = "network_error"

\* C17: after a decision with allow = true the request state carries
\* agent = {agent_id: resolved identity} and as policy_result the whole
\* decision payload the service returned: decision_id, allow, the reasons as
\* returned and every further field such as assurance_level.
C17_FullDecisionAttached ==
    (Continued /\ state.policy_result.set) =>
        LET sent == SentDecision(replies[1])
        IN /\ state.agent = [set |-> TRUE, agent_id |-> frame.effective_agent_id,
                             rest |-> "none"]
           /\ state.policy_result.decision_id = sent.decision_id
           /\ state.policy_result.allow = sent.allow
           /\ (sent.reasons # Absent) => (state.policy_result.reasons = sent.reasons)
           /\ state.policy_result.assurance_level = sent.assurance_level

\* C19: a mediated request issues at most one remote call: none when it is
\* bypassed, when it resolves nobody and on the no-policy path with a
\* passport; after a failed call the mediation is over with that one call.
C19_NoRetry ==
    /\ Len(calls) <= 1
    /\ Len(replies) <= Len(calls)
    /\ (pc # "idle" /\ PathHasSkipPrefix) => (calls = << >>)
    /\ (pc # "idle" /\ ~ResolvedSomeone) => (calls = << >>)
    /\ (/\ pc # "idle" /\ ~PolicyReferenceApplies
        /\ NonEmptyDict(frame.body_passport, "agent_id")) => (calls = << >>)
    /\ (Len(replies) >= 1 /\ replies[1].kind # "ok") =>
           (pc = "done" /\ Len(calls) = 1 /\ Len(replies) = 1)

C19_Witness ==
    /\ pc = "done" /\ Len(calls) = 1 /\ Len(replies) = 1
    /\ replies[1].kind = "http_error" /\ replies[1].status = 500
    /\ calls[1].op = "verify_policy_with_passport"

\* C20: every mediation that waits for a remote call reaches a terminal
\* outcome, the hand-over to the handler or a rejection; a call that timed
\* out has ended the mediation in a rejection.
C20_MediationTerminates ==
    /\ (pc \in {"await_verify", "await_view"}) ~> (pc \in {"call_next", "done"})
    /\ []((Len(replies) >= 1 /\ replies[Len(replies)].kind = "timeout") => Rejected)

C20_Witness ==
    /\ Rejected /\ Len(replies) = 1 /\ replies[1].kind = "timeout"
    /\ calls[1].op = "get_passport_view" /\ result.status = 408

\* C14: the keyset cache is process-wide also for the get_jwks convenience
\* function of the middleware: a call through it less than TTL after a
\* keyset was stored in the process is served without a remote fetch.
C14_OneFetchPerTtlWindow ==
    \A i \in 1..Len(fetches) :
        (fetches[i].owner = "convenience") => ~fetches[i].within_ttl

\* C15: get_jwks serves the cached keyset only while the clock is strictly
\* before the cached expiry, and then without a fetch; a call that misses
\* issues one fetch; a stored keyset has expiry = time of the fetch + 300 s;
\* so a keyset served from the cache is less than 300 s old.
C15_CacheServedOnlyBeforeExpiry ==
    /\ \A k \in Callers :
          /\ (jret[k].kind = "cached") =>
                 /\ jret[k].keyset.set
                 /\ jret[k].before_expiry
                 /\ jret[k].fresh
                 /\ jret[k].fetches = 0
          /\ (jret[k].kind \in {"fetched", "raised"}) => (jret[k].fetches = 1)
    /\ \A i \in 1..Len(clients) :
          clients[i].jwks_cache.set =>
              /\ clients[i].jwks_cache_expiry.set
              /\ clients[i].jwks_cache_expiry.at = clients[i].jwks_cache.at + 300
              /\ clients[i].jwks_cache.at <= now

C15_Witness ==
    \E k \in Callers :
        /\ jret[k].kind = "cached" /\ jret[k].keyset = SetAt(0) /\ now = 150
        /\ Len(fetches) = 1

\* A call that finds the entry expired at the instant of its expiry.
C15_WitnessExpired ==
    \E k \in Callers :
        /\ jcall[k].pc = "fetching" /\ now = 300
        /\ clients[jcall[k].client].jwks_cache = SetAt(0)

\* C16: a get_jwks call whose fetch fails writes neither jwks_cache nor
\* jwks_cache_expiry of any client (an entry stored meanwhile by another
\* caller stays), and raises status 500 with reason JWKS_FETCH_FAILED.
C16_FailedFetchLeavesCache ==
    [][\A k \in Callers :
          (jcall[k].pc = "fetching" /\ jcall'[k].pc = "idle"
             /\ jret'[k].kind = "raised") =>
              /\ Len(clients') = Len(clients)
              /\ \A i \in 1..Len(clients) :
                    /\ clients'[i].jwks_cache = clients[i].jwks_cache
                    /\ clients'[i].jwks_cache_expiry = clients[i].jwks_cache_expiry
              /\ jret'[k].error.status = 500
              /\ jret'[k].error.reasons = "JWKS_FETCH_FAILED"]_vars

\* Two callers fetched on the component's client; the fetch of one failed
\* after the other had stored its keyset, and a later call was served it.
C16_Witness ==
    /\ Len(clients) = 2 /\ ~clients[2].jwks_cache.set /\ clients[2].session = "None"
    /\ Len(fetches) = 2
    /\ jret["t1"].kind = "raised"
    /\ jret["t2"].kind = "cached"
    /\ clients[1].jwks_cache.set /\ jret["t2"].keyset = clients[1].jwks_cache

\* C18: after shutdown no session that a client created is still open.
C18_NoSessionOpenAfterShutdown ==
    down => \A i \in 1..Len(clients) : clients[i].session # "open"

\* The top-level fields of the body as the entry point read it, without the
\* passport and policy keys.
BodyContext ==
    IF frame.body_reads = 1 /\ request.body.kind = "mapping"
    THEN request.body.ctx ELSE NoCtx

\* The closure's context argument has the key.
OverrideHas(key) == opts.context[key] # Absent

\* C21: the context handed to the verify operation is the body's top-level
\* fields other than passport and policy, merged with the caller-supplied
\* context; for a key in both, the caller-supplied value is used.  The
\* request sent carries that context, with agent_id and policy_id written
\* over it by the client only when the operation has a value for them.
C21_OverrideContextWins ==
    (Len(calls) = 1 /\ calls[1].op \in VerifyOps) =>
        /\ \A key \in {"agent_id", "policy_id"} :
              frame.context[key] = IF OverrideHas(key) THEN opts.context[key]
                                   ELSE BodyContext[key]
        /\ (/\ calls[1].op = "verify_policy_with_passport"
            /\ calls[1].body.passport.agent_id = None) =>
               calls[1].body.context.agent_id =
                   IF OverrideHas("agent_id") THEN opts.context.agent_id
                   ELSE BodyContext.agent_id

C21_Witness ==
    /\ pc = "await_verify" /\ opts.entry = "require_policy_with_context"
    /\ request.body.ctx.agent_id = "evil" /\ opts.context.agent_id = "oa"
    /\ calls[1].op = "verify_policy_with_passport"
    /\ calls[1].body.passport.agent_id = None
    /\ calls[1].body.context.agent_id = "oa"
    /\ frame.context.policy_id = "bp"

C23_BodyParsingNeverRejects ==
    (pc # "idle" /\ frame.body_reads = 1) =>
        ~(Rejected /\ calls = << >> /\ result.error = "internal_error")

RejectionCodes == {"missing_agent_id", "agent_verification_failed", "policy_violation",
                   "api_error", "internal_error"}

\* The code and the status of a rejection agree.
RejectionCodeMatchesStatus ==
    (pc = "done" /\ result.kind = "rejection") =>
        /\ result.error \in RejectionCodes
        /\ (result.error = "missing_agent_id") => (result.status = 401)
        /\ (result.error = "policy_violation") => (result.status = 403)
        /\ (result.error = "internal_error") => (result.status = 500)
        /\ (/\ result.error \in {"api_error", "agent_verification_failed"}
            /\ ~invoked /\ replies[1].kind = "http_error") =>
               (result.status = replies[1].status)

\* C24: every rejection has one of the five error codes, status 401 for
\* missing_agent_id, 403 for policy_violation, 500 for internal_error and the
\* upstream status for api_error and agent_verification_failed, and in every
\* case a status between 100 and 599.
C24_RejectionStatusIsValidHttp ==
    /\ RejectionCodeMatchesStatus
    /\ (pc = "done" /\ result.kind = "rejection") =>
           (result.status >= 100 /\ result.status <= 599)

\* The mediation of the request in slot s, run on its own with the replies
\* and the handler outcome the slot got.
Alone(s) ==
    LET out == Mediate(opts, med[s].request, med[s].replies)
    IN IF med[s].invoked
       THEN [pc |-> "done", frame |-> out.frame, state |-> out.state,
             result |-> dispatch_after_call_next(out.frame, med[s].handler)]
       ELSE [pc |-> out.pc, frame |-> out.frame, state |-> out.state,
             result |-> out.result]

\* C25: a request in flight together with another one on the same component
\* and client has, for its method, path, headers, body, configuration and
\* replies, the position, the locals, the attached identity and decision and
\* the result it has when it is mediated alone, and makes the same calls.
C25_MediationsIndependent ==
    \A s \in Slots :
        (med[s].pc # "idle") =>
            /\ med[s].pc = Alone(s).pc
            /\ med[s].frame = Alone(s).frame
            /\ med[s].state = Alone(s).state
            /\ med[s].result = Alone(s).result
            /\ med[s].calls = dispatch_begin(opts, med[s].request).call
            /\ (med[s].calls # << >>) => (clients[ComponentClient].session = "open")

\* One request was denied while another, with a different identity and
\* another reply, had been let through to its handler.
C25_Witness ==
    /\ med["r1"].pc = "done" /\ med["r1"].result.error = "policy_violation"
    /\ med["r1"].result.agent_id = "a2"
    /\ med["r2"].pc = "done" /\ med["r2"].invoked
    /\ med["r2"].state.agent.agent_id = "a4" /\ med["r2"].state.policy_result.set
    /\ med["r2"].result.kind = "response"

\* The methods that may carry a body.
StateChangingMethods == {"POST", "PUT", "PATCH", "DELETE"}

\* The entry point has a use for the body: a body option is on or a policy
\* id is configured (the closures always have).
BodyIsOfUse ==
    opts.passport_from_body \/ opts.policy_from_body \/ Truthy(opts.policy_id)

\* The passport and the policy pack embedded in the body that the
\* configuration honours.
EmbeddedPassport ==
    IF /\ opts.passport_from_body /\ request.body.kind = "mapping"
       /\ request.body.passport.kind = "dict"
    THEN request.body.passport ELSE NoPassportField
EmbeddedPolicy ==
    IF /\ opts.policy_from_body /\ request.body.kind = "mapping"
       /\ request.body.policy.kind = "dict"
    THEN request.body.policy ELSE NoPolicyField

\* The body of a mediated request with method in methods is read once and
\* its honoured passport and policy pack are the ones resolution uses.
BodyTakesPart(methods) ==
    (/\ pc # "idle" /\ ~PathHasSkipPrefix /\ BodyIsOfUse
     /\ request.method \in methods) =>
        /\ frame.body_reads = 1
        /\ frame.body_passport = EmbeddedPassport
        /\ frame.body_policy = EmbeddedPolicy

\* C26: for every method that may carry a body (POST, PUT, PATCH, DELETE)
\* the body is read exactly once before resolution and its honoured
\* passport and policy pack take part in identity resolution and policy
\* selection; for the other methods nothing is read and the body mapping
\* is empty.
C26_BodyReadForStateChangingMethods ==
    /\ BodyTakesPart(StateChangingMethods)
    /\ (pc # "idle" /\ request.method \notin StateChangingMethods) =>
           /\ frame.body_reads = 0
           /\ frame.body_passport = NoPassportField
           /\ frame.body_policy = NoPolicyField

\* What holds of the code: the body of a POST is read once and takes part.
PostBodyTakesPart == BodyTakesPart({"POST"})

\* Decision fields found at top level next to an envelope.
FieldsBesideEnvelope == [decision_id |-> "d9", allow |-> "true", reasons |-> "one",
                         assurance_level |-> Absent]

\* C27: a success response yields one decision, the content of the
\* "decision" envelope when the payload has one (whatever stands beside it)
\* and the top-level payload otherwise, with the decision_id, allow and
\* reasons that were sent; a payload without decision_id or without allow
\* yields no decision and the mediation ends in a rejection, not in a
\* continuation.
C27_DecisionNormalised ==
    (Len(replies) = 1 /\ calls[1].op \in VerifyOps /\ replies[1].kind = "ok") =>
        LET sent == SentDecision(replies[1])
            enveloped == from_api_response(
                [has_decision |-> TRUE, decision |-> sent,
                 top |-> FieldsBesideEnvelope, view_agent_id |-> Absent])
            flat == from_api_response(
                [has_decision |-> FALSE, decision |-> NoFields, top |-> sent,
                 view_agent_id |-> Absent])
        IN /\ enveloped = flat
           /\ flat.raised <=> (sent.decision_id = Absent \/ sent.allow = Absent)
           /\ ~flat.raised =>
                  /\ flat.decision_id = sent.decision_id
                  /\ flat.allow = sent.allow
                  /\ flat.reasons = (IF sent.reasons = Absent THEN None
                                     ELSE sent.reasons)
           /\ IF sent.decision_id = Absent \/ sent.allow = Absent
              THEN Rejected /\ result.error = "internal_error"
              ELSE IF sent.allow = "true"
              THEN /\ Continued
                   /\ state.policy_result.decision_id = sent.decision_id
                   /\ state.policy_result.allow = sent.allow
              ELSE /\ Rejected /\ result.error = "policy_violation"
                   /\ result.decision_id = sent.decision_id
                   /\ (sent.reasons # Absent) => (result.reasons = sent.reasons)

C27_Witness ==
    /\ Rejected /\ Len(replies) = 1 /\ replies[1].kind = "ok"
    /\ replies[1].has_decision /\ replies[1].decision.allow = "false"
    /\ result.error = "policy_violation" /\ result.decision_id = "d1"

\* A payload without allow was not taken for an allow.
C27_WitnessNoAllow ==
    /\ Rejected /\ Len(replies) = 1 /\ replies[1].kind = "ok"
    /\ replies[1].has_decision /\ replies[1].decision.allow = Absent
    /\ result.error = "internal_error"

\* C28: a request that was handed to the downstream handler gets no
\* mediation rejection (api_error, agent_verification_failed or
\* internal_error) as well, also when the handler raises.
C28_NoRejectionAfterContinue ==
    invoked =>
        ~(/\ result.kind = "rejection"
          /\ result.error \in {"api_error", "agent_verification_failed",
                                "internal_error"})

\* The identity attached to the request state is the resolved one.
AttachedIdentityIsResolved ==
    state.agent.set =>
        /\ Truthy(state.agent.agent_id)
        /\ state.agent.agent_id = frame.effective_agent_id

\* The identity reported in a rejection is the resolved one.
ReportedIdentityIsResolved ==
    (result.kind = "rejection" /\ result.agent_id # Absent) =>
        /\ Truthy(result.agent_id)
        /\ result.agent_id = frame.effective_agent_id

\* C29: the agent_id of an attached identity context and the agent_id
\* reported in a rejection are non-empty and equal to the identity the
\* request resolved, on the policy path, on the no-policy passport path and
\* on the no-policy identity-view path.
C29_IdentityFixedOnceResolved ==
    AttachedIdentityIsResolved /\ ReportedIdentityIsResolved

\* The get_jwks calls that wait for their fetch.
Fetching == { k \in Callers : jcall[k].pc = "fetching" }

\* C30: callers that miss while another caller's fetch is pending each
\* issue their own fetch (one per call, at least one when nothing is
\* cached); a fetch that succeeds writes its keyset and expiry over the
\* cache and returns that keyset to its caller, a fetch that fails writes
\* nothing; so when all calls have completed the cache holds the keyset and
\* expiry of the successful fetch that completed last.
C30_ConcurrentMissesLastWriterWins ==
    /\ []((Fetching # {} \/ \E k \in Callers : jret[k].kind # "none") =>
              (Len(fetches) >= 1 /\ Cardinality(Fetching) <= Len(fetches)))
    /\ [][\A k \in Callers :
             (jcall[k].pc = "fetching" /\ jcall'[k].pc = "idle") =>
                 LET c == jcall[k].client
                 IN IF jret'[k].kind = "fetched"
                    THEN /\ clients'[c].jwks_cache = SetAt(now)
                         /\ clients'[c].jwks_cache_expiry = SetAt(now + TTL)
                         /\ jret'[k].keyset = clients'[c].jwks_cache
                    ELSE /\ jret'[k].kind = "raised"
                         /\ clients'[c].jwks_cache = clients[c].jwks_cache
                         /\ clients'[c].jwks_cache_expiry =
                                clients[c].jwks_cache_expiry]_vars
    /\ []((Fetching = {} /\ last_stored.set) =>
              \E c \in 1..Len(clients) :
                  /\ clients[c].jwks_cache = last_stored
                  /\ clients[c].jwks_cache_expiry = SetAt(last_stored.at + TTL))

\* Two callers missed on the component's client at the same time, both
\* fetched, the fetches completed at different times and the cache holds
\* the later keyset.
C30_Witness ==
    /\ Fetching = {} /\ Len(clients) = 2 /\ Len(fetches) = 2
    /\ fetches[1].owner = "component" /\ fetches[2].owner = "component"
    /\ ~fetches[2].within_ttl
    /\ jret["t1"].kind = "fetched" /\ jret["t1"].keyset = SetAt(0)
    /\ jret["t2"].kind = "fetched" /\ jret["t2"].keyset = SetAt(TickSeconds)
    /\ clients[1].jwks_cache = SetAt(TickSeconds)
    /\ clients[1].jwks_cache_expiry = SetAt(TickSeconds + TTL)

\* C31: in every reachable state each client has jwks_cache and
\* jwks_cache_expiry both unset or both set, whatever the interleaving of
\* the get_jwks calls, and no step lowers or unsets jwks_cache_expiry.
C31_CacheAndExpirySetTogether ==
    /\ [](\A i \in 1..Len(clients) :
              clients[i].jwks_cache.set <=> clients[i].jwks_cache_expiry.set)
    /\ [][\A i \in 1..Len(clients) :
             clients[i].jwks_cache_expiry.set =>
                 /\ clients'[i].jwks_cache_expiry.set
                 /\ clients'[i].jwks_cache_expiry.at >=
                        clients[i].jwks_cache_expiry.at]_vars

\* The application's client fetched, its entry expired while a second
\* caller's fetch was pending, and a later fetch moved the expiry on.
C31_Witness ==
    /\ Len(fetches) >= 2
    /\ fetches[1].owner = "application" /\ fetches[2].owner = "application"
    /\ clients[2].jwks_cache = SetAt(2 * TickSeconds)
    /\ clients[2].jwks_cache_expiry = SetAt(2 * TickSeconds + TTL)
    /\ \E k \in Callers : jcall[k].pc = "fetching" /\ jcall[k].client = 2

\* The step stored the keyset that caller k fetched, with its expiry, on the
\* caller's client and returned it to the caller.
StoredAndReturned(k) ==
    /\ jret'[k].kind = "fetched"
    /\ jret'[k].keyset = SetAt(now)
    /\ clients'[jcall[k].client].jwks_cache = SetAt(now)
    /\ clients'[jcall[k].client].jwks_cache_expiry = SetAt(now + TTL)

\* A success response with keys and no further header is stored and returned.
PlainKeysetStored ==
    [][\A k \in Callers : \A response \in JwksResponses :
          (/\ response.kind = "ok" /\ response.keys /\ ~response.server_timing
           /\ jwks_replied(k, response)) => StoredAndReturned(k)]_vars

\* C32: on a miss, whenever the service answers GET /jwks.json with a
\* success status and a payload holding keys, get_jwks stores that keyset
\* and returns it, whatever other headers (such as Server-Timing) the
\* response has.
C32_KeysetStoredWhateverHeaders ==
    [][\A k \in Callers : \A response \in JwksResponses :
          (/\ response.kind = "ok" /\ response.keys
           /\ jwks_replied(k, response)) => StoredAndReturned(k)]_vars

\* The policy id the entry point passes to the verify operation: the id of
\* the pack for the IN_BODY operation, the configured id otherwise.
PolicyPassed ==
    IF calls[1].op = "verify_policy_with_policy_in_body"
    THEN calls[1].body.policy.id ELSE opts.policy_id

\* context.policy_id of a verify request is the policy passed to the
\* operation whenever that is not null.
ContextPolicyIsPassed ==
    (Len(calls) = 1 /\ calls[1].op \in VerifyOps /\ PolicyPassed # None) =>
        (calls[1].body.context.policy_id = PolicyPassed)

\* context.agent_id of a verify request is the resolved identity whenever
\* that is not null, and is never a value that only the body's fields or
\* the override context supplied.
ContextAgentIsResolved ==
    (Len(calls) = 1 /\ calls[1].op \in VerifyOps) =>
        /\ (frame.effective_agent_id # None) =>
               (calls[1].body.context.agent_id = frame.effective_agent_id)
        /\ calls[1].body.context.agent_id \in {frame.effective_agent_id, Absent}

\* C33: in every verify request sent, context.agent_id is the identity the
\* pipeline resolved and context.policy_id the policy passed to the
\* operation, whenever that value is not null, whatever agent_id or
\* policy_id the body or the override context put into the context; the
\* body cannot name another agent to the service than the one resolved.
C33_ContextCarriesResolvedIdentity ==
    ContextAgentIsResolved /\ ContextPolicyIsPassed

\* The request's path starts with one of the prefixes of the list.
StartsWithOneOf(paths) ==
    \E i \in 1..Len(paths) : IsPrefix(paths[i], request.path)

\* The mediation of the current request was bypassed on its path.
Bypassed == frame.call_site = "skip"

\* With a non-empty list supplied by the caller, the bypassed requests are
\* exactly those whose path starts with one of its prefixes.
NonEmptySkipListExact ==
    (pc # "idle" /\ ~opts.skip_arg.isNone /\ opts.skip_arg.paths # << >>) =>
        (Bypassed <=> StartsWithOneOf(opts.skip_arg.paths))

\* C34: for every skip-path list the caller supplied, the empty list
\* included, a request is bypassed exactly when its path starts with one of
\* the supplied prefixes.
C34_BypassedExactlySuppliedPrefixes ==
    (pc # "idle" /\ ~opts.skip_arg.isNone) =>
        (Bypassed <=> StartsWithOneOf(opts.skip_arg.paths))

====
